---- MODULE Spec2Model ----
(***************************************************************************)
(* The LBA (logical block address) metadata cache of zero-os/0-Disk:       *)
(* nbdserver/lba/lba.go.  An LBA maps block indices to content hashes; the *)
(* map is cut in shards of NumberOfRecordsPerLBAShard hashes, cached in a  *)
(* bounded write-back cache and persisted per shard as hash fields of the  *)
(* volume in an external (redis) store.                                    *)
(*                                                                         *)
(* lba.go is modelled statement by statement.  The shard type, the shard   *)
(* cache and the Hash type are not among the source files; they are        *)
(* modelled from spec.md (sections 3, 4.1-4.3).                            *)
(***************************************************************************)
EXTENDS Integers, Sequences, FiniteSets, TLC

\* ------------------------------------------------------------- parameters

\* Records per shard (R).
NumberOfRecordsPerLBAShard == 128

\* Width of a hash in bytes (H); the model's hashes are HashSize bytes wide.
HashSize == 1

\* Hash bytes range over 0..MaxHashByte.
MaxHashByte == 1

\* block_count given to NewLBA.
BlockCount == 200

\* Threads that call into the LBA.
NumThreads == 3

\* Threads that call into the LBA in the specification with fair scheduling.
FairThreads == 2

R == NumberOfRecordsPerLBAShard

BytesPerShard == R * HashSize

\* ------------------------------------------------------------------ Hash

\* Go's nil Hash (the "empty/absent value" of spec 4.1).
Nil == <<>>

\* The all-zero hash.
NilHash == [i \in 1..HashSize |-> 0]

\* The hashes callers pass to Set: every byte the same value.
Hashes == {[i \in 1..HashSize |-> v] : v \in 0..MaxHashByte}

IsNil(h) == h = Nil \/ h = NilHash

\* Byte-wise equality, the nil hash and the all-zero hash being the same hash.
HashEquals(a, b) == (IsNil(a) /\ IsNil(b)) \/ a = b

\* ----------------------------------------------------------------- shard

newShard == [hashes |-> [i \in 1..R |-> NilHash], dirty |-> FALSE]

\* shard.Set: a slot holds H bytes; the nil Hash is written as NilHash.
ShardSet(s, hashIndex, h) ==
    [hashes |-> [s.hashes EXCEPT ![hashIndex + 1] = IF h = Nil THEN NilHash ELSE h],
     dirty |-> TRUE]

ShardGet(s, hashIndex) == s.hashes[hashIndex + 1]

UnsetDirty(s) == [s EXCEPT !.dirty = FALSE]

\* A Write that writes the hash of the first slot for every slot.
ShardWriteFirstSlot(s) ==
    [k \in 1..BytesPerShard |-> s.hashes[1][((k - 1) % HashSize) + 1]]

\* R concatenated H-byte hashes; a nil hash is written as NilHash.
ShardWrite(s) ==
    [k \in 1..BytesPerShard |->
        LET h == s.hashes[((k - 1) \div HashSize) + 1]
        IN  IF h = Nil THEN 0 ELSE h[((k - 1) % HashSize) + 1]]

ShardBytesOk(bytes) == Len(bytes) = BytesPerShard

shardFromBytes(bytes) ==
    [hashes |-> [i \in 1..R |-> SubSeq(bytes, (i - 1) * HashSize + 1, i * HashSize)],
     dirty |-> FALSE]

\* ------------------------------------------------------------ LBA layout

\* A mutex count that drops the shard of the last blocks when blockCount is
\* no multiple of R.
MuxCountRoundedDown(blockCount) == blockCount \div R

\* NewLBA: muxCount for a block count.
MuxCountOf(blockCount) ==
    IF blockCount % R > 0 THEN (blockCount \div R) + 1 ELSE blockCount \div R

muxCount == MuxCountOf(BlockCount)

ShardIndices == 0..(muxCount - 1)

ShardIndexOf(blockIndex) == blockIndex \div R

\* A hash index that is the same for every block.
HashIndexAlwaysFirst(blockIndex) == 0

HashIndexOf(blockIndex) == blockIndex % R

\* The block indices the callers of the model use: the first block of every
\* shard, and a second block of shard 0.
Blocks == {b \in 0..(BlockCount - 1) : b % R = 0 \/ b = 1}

Threads == 1..NumThreads

\* cacheLimitInBytes values given to NewLBA: less than one shard, two shards.
CacheLimits == {0, 2 * BytesPerShard}

\* Entries the shard cache holds: floor(limit / bytes per shard), at least 1.
CacheSize(limit) ==
    IF limit < BytesPerShard THEN 1 ELSE limit \div BytesPerShard

NilRef == 0

\* A field of the volume's hash in the store: its bytes, or no such field.
Absent == [present |-> FALSE, bytes |-> <<>>]

Field(bytes) == [present |-> TRUE, bytes |-> bytes]

VARIABLES
    store,       \* external store: shard index -> bytes of the field, or Absent
    cache,       \* shard cache: sequence of [index, shard], most recent first
    heap,        \* shard objects: id -> [hashes, dirty]
    shardMux,    \* per shard index: 0 (free) or the thread holding the mutex
    cacheLimit,  \* cacheLimitInBytes of NewLBA
    reliable,    \* TRUE: the provider and the store never fail
    pc,          \* per thread: position in its current operation
    op,          \* per thread: the operation [kind, block, hash], and whether
                 \* its shard.Set ran while a Flush was running (beside)
    ref,         \* per thread: the shard pointer it holds (NilRef: none)
    err,         \* per thread: error of the current operation
    res,         \* per thread: hash a Get returns
    txn,         \* per thread: commands a Flush has sent since MULTI, whether a
                 \* Send failed, whether EXEC replied nil, and the indices of
                 \* the entries Serialize has come to
    fetched,     \* per thread: its current operation has sent an HGET
    evicting,    \* per thread: the entry its cache.Add has taken out of the
                 \* cache and whose eviction callback has not returned yet,
                 \* with the shard as the callback read it and its buffer
    evictLog,    \* the last eviction callback that ran, until a caller unlocks
    open,        \* per thread: connections it took from the provider and has not
                 \* closed
    lastSet      \* per block: <<>>, or <<h, beside, stored>> for the last Set/Delete
                 \* that returned; stored: the store then held a hash for the block
                 \* (kept for the callers of a store that never fails)

\* storage.ListVdisks (nbd/ardb/storage/storage.go)
VARIABLES
    servers,     \* per server of the cluster: what server.Do(action) returns
    reply,       \* the variable reply of ListVdisks, which all goroutines share
    gpc,         \* per server: position of its goroutine
    result,      \* per server: the variable result of its goroutine
    mpc,         \* position of ListVdisks itself
    serverCount, \* goroutines started
    received,    \* the loop counter i: results received from resultCh
    ids,         \* the ids collected so far
    listed       \* what ListVdisks returned

listVars == <<servers, reply, gpc, result, mpc, serverCount, received, ids, listed>>

\* Generator.GenerateFromStorage (tlog generator)
VARIABLES
    indices,      \* what ListBlockIndices returned
    faults,       \* the call that may fail: "none", "GetBlock" or "AddTransaction"
    produced,     \* producer: indices it has sent into indicesCh
    prodPc,       \* position of the index producer
    indicesCh,    \* the buffered channel indicesCh
    closed,       \* indicesCh has been closed
    workPc,       \* per fetch worker: its position
    workIdx,      \* per fetch worker: the index it received
    idxContentCh, \* the buffered channel idxContentCh
    feedPc,       \* position of the goroutine that adds to the flusher
    feedIc,       \* the idxContent that goroutine received
    seq,          \* the variable seq
    transactions, \* the AddTransaction calls that succeeded: [seq, idx, content]
    waitPc,       \* position of the goroutine that waits for wg
    ctxDone,      \* cancelFunc has been called
    genPc,        \* position of GenerateFromStorage itself
    generated     \* what GenerateFromStorage returned

genVars == <<indices, faults, produced, prodPc, indicesCh, closed, workPc, workIdx,
             idxContentCh, feedPc, feedIc, seq, transactions, waitPc, ctxDone,
             genPc, generated>>

\* copyDifferentConnections (cmd/copyvolume/copy_different.go)
VARIABLES
    srcVolume,   \* the hash input.Source.Volume on the server of connA
    dstVolume,   \* the hash input.Target.Volume on the server of connB
    unreliable,  \* TRUE: commands on the connections can fail
    data,        \* the variable data: what HGETALL returned
    remaining,   \* fields of data the range loop has not visited yet
    buffered,    \* commands connB.Send has put in the output buffer
    brokenB,     \* connB has failed: every later command on it fails
    delivered,   \* commands the server of connB has received from connB
    watched,     \* the server's WATCH of connB: "no", "clean", "dirty", "done"
    openA,       \* connA is open
    openB,       \* connB is open
    copyPc,      \* position of copyDifferentConnections
    copied,      \* what copyDifferentConnections returned
    otherAt,     \* when another client wrote to the target volume
    untouched    \* the target volume as it is without the copy

copyVars == <<srcVolume, dstVolume, unreliable, data, remaining, buffered, brokenB,
              delivered, watched, openA, openB, copyPc, copied, otherAt, untouched>>

\* dedupInt64s and dedupStrings (nbd/ardb/storage/storage.go)
VARIABLES
    elems,       \* the element type of the slice: "int64" or "string"
    input,       \* the sorted slice as it was when the function was called
    slice,       \* the slice of the caller
    deduped,     \* the slice it returned
    dedupPc      \* "none", "call" or "done"

dedupVars == <<elems, input, slice, deduped, dedupPc>>

\* The variables of the programs other than the LBA.
others == <<listVars, genVars, copyVars, dedupVars>>

lbaVars == <<store, cache, heap, shardMux, cacheLimit, reliable, pc, op, ref, err,
             res, txn, fetched, evicting, evictLog, open, lastSet>>

vars == <<lbaVars, others>>

NoOp == [kind |-> "none", block |-> 0, hash |-> Nil, beside |-> FALSE, again |-> FALSE]

\* ------------------------------------------------------------ ListVdisks

\* Servers of the cluster.
NumServers == 2

\* Vdisk ids are 1..MaxVdiskId, ordered as their strings are.
MaxVdiskId == 2

Servers == 1..NumServers

\* The interface value nil, and a []string in an interface value.
NoReply == [isNil |-> TRUE, ids |-> <<>>]

StringsReply(l) == [isNil |-> FALSE, ids |-> l]

\* The id lists a server reports: none, one id, two ids in either order.
IdLists ==
    {<<>>} \cup {<<a>> : a \in 1..MaxVdiskId}
           \cup {<<a, b>> : a, b \in 1..MaxVdiskId}

\* What server.Do(action) returns: an error, a nil reply, or a list of ids.
DoResults ==
    {[err |-> TRUE, reply |-> NoReply], [err |-> FALSE, reply |-> NoReply]}
        \cup {[err |-> FALSE, reply |-> StringsReply(l)] : l \in IdLists}

\* Go's nil slice and nil error of a serverResult.
NoResult == [ids |-> <<>>, err |-> FALSE]

NotListed == [returned |-> FALSE, ids |-> <<>>, err |-> FALSE, panic |-> FALSE]

\* sort.Strings
RECURSIVE sortStrings(_)
sortStrings(l) ==
    IF l = <<>> THEN <<>>
    ELSE LET i == CHOOSE i \in 1..Len(l) :
                    /\ \A j \in 1..Len(l) : l[i] <= l[j]
                    /\ \A j \in 1..(i - 1) : l[j] # l[i]
         IN  <<l[i]>> \o sortStrings(SubSeq(l, 1, i - 1) \o SubSeq(l, i + 1, Len(l)))

\* dedupInt64s, dedupStrings: the loop for i := p - 1; i >= 0; i--, on 1-based
\* positions: the array of s as the loop leaves it, and p.
RECURSIVE dedupLoop(_, _, _)
dedupLoop(l, p, i) ==
    IF i < 1 THEN [s |-> l, p |-> p]
    ELSE IF l[p] # l[i] THEN dedupLoop([l EXCEPT ![p - 1] = l[i]], p - 1, i - 1)
    ELSE dedupLoop(l, p, i - 1)

\* A dedupStrings that returns the slice as it is.
dedupStringsKeepsAll(l) == l

\* dedupStrings: return s[p:]
dedupStrings(l) ==
    IF Len(l) <= 1 THEN l
    ELSE LET d == dedupLoop(l, Len(l), Len(l) - 1) IN SubSeq(d.s, d.p, Len(d.s))

\* dedupInt64s: p := len(s) - 1; if p <= 0 { return s }; the same loop.
dedupInt64s(s) ==
    IF Len(s) - 1 <= 0 THEN s
    ELSE LET d == dedupLoop(s, Len(s), Len(s) - 1) IN SubSeq(d.s, d.p, Len(d.s))

\* The slice of the caller after either function: the loop writes into its
\* array.
CompactedInPlace(s) ==
    IF Len(s) - 1 <= 0 THEN s ELSE dedupLoop(s, Len(s), Len(s) - 1).s

\* Slices have at most MaxSliceLen elements; the int64 values are
\* -1..MaxSliceValue.
MaxSliceLen == 4

MaxSliceValue == 2

Int64Values == (0 - 1)..MaxSliceValue

\* Strings, as their characters: the empty string, "1", "10" and "2".
StringValues == {<<>>, <<"1">>, <<"1", "0">>, <<"2">>}

\* The byte order of the characters.
CharLess(c, d) ==
    \E i, j \in 1..10 :
        /\ <<"0", "1", "2", "3", "4", "5", "6", "7", "8", "9">>[i] = c
        /\ <<"0", "1", "2", "3", "4", "5", "6", "7", "8", "9">>[j] = d
        /\ i < j

\* a < b on strings: byte by byte, a proper prefix being smaller.
RECURSIVE StringLess(_, _)
StringLess(a, b) ==
    IF b = <<>> THEN FALSE
    ELSE IF a = <<>> THEN TRUE
    ELSE IF Head(a) = Head(b) THEN StringLess(Tail(a), Tail(b))
    ELSE CharLess(Head(a), Head(b))

\* a < b on the elements of a slice.
Less(kind, a, b) == IF kind = "int64" THEN a < b ELSE StringLess(a, b)

\* The slices of at most MaxSliceLen values that are sorted in
\* non-decreasing order.
SortedSlices(kind, values) ==
    {l \in UNION {[1..n -> values] : n \in 0..MaxSliceLen} :
        \A i \in 1..(Len(l) - 1) : ~Less(kind, l[i + 1], l[i])}

\* No dedup function is running.
DedupIdle ==
    /\ elems = "none"
    /\ input = <<>>
    /\ slice = <<>>
    /\ deduped = <<>>
    /\ dedupPc = "none"

\* dedupInt64s(s) returns
CallDedupInt64s ==
    /\ dedupPc = "call"
    /\ elems = "int64"
    /\ deduped' = dedupInt64s(slice)
    /\ slice' = CompactedInPlace(slice)
    /\ dedupPc' = "done"
    /\ UNCHANGED <<elems, input, lbaVars, listVars, genVars, copyVars>>

\* dedupStrings(s) returns
CallDedupStrings ==
    /\ dedupPc = "call"
    /\ elems = "string"
    /\ deduped' = dedupStrings(slice)
    /\ slice' = CompactedInPlace(slice)
    /\ dedupPc' = "done"
    /\ UNCHANGED <<elems, input, lbaVars, listVars, genVars, copyVars>>

\* ListVdisks is not running.
ListIdle ==
    /\ servers = <<>>
    /\ reply = NoReply
    /\ gpc = <<>>
    /\ result = <<>>
    /\ mpc = "none"
    /\ serverCount = 0
    /\ received = 0
    /\ ids = <<>>
    /\ listed = NotListed

\* -------------------------------------------------- GenerateFromStorage

\* runtime.NumCPU(): the fetch workers and the capacity of both channels.
NumProcess == 2

\* Block indices are 1..MaxBlockIndex.
MaxBlockIndex == 3

Workers == 1..NumProcess

\* ListBlockIndices returns the indices of the vdisk in ascending order, each
\* once.
IndexLists ==
    {l \in UNION {[1..n -> 1..MaxBlockIndex] : n \in 0..MaxBlockIndex} :
        \A i, j \in 1..Len(l) : i < j => l[i] < l[j]}

\* The content sourceStorage holds for block idx.
SourceBlock(idx) == <<"content", idx>>

NoIdxContent == [idx |-> 0, content |-> <<>>]

NotGenerated == [returned |-> FALSE, err |-> FALSE, flushed |-> FALSE]

\* wg.Wait() returns: every wg.Done() has run.
WaitGroupDone ==
    /\ prodPc = "done"
    /\ feedPc = "done"
    /\ \A w \in Workers : workPc[w] = "done"

\* GenerateFromStorage is not running.
GenIdle ==
    /\ indices = <<>>
    /\ faults = "none"
    /\ produced = 0
    /\ prodPc = "none"
    /\ indicesCh = <<>>
    /\ closed = FALSE
    /\ workPc = <<>>
    /\ workIdx = <<>>
    /\ idxContentCh = <<>>
    /\ feedPc = "none"
    /\ feedIc = NoIdxContent
    /\ seq = 0
    /\ transactions = <<>>
    /\ waitPc = "none"
    /\ ctxDone = FALSE
    /\ genPc = "none"
    /\ generated = NotGenerated

\* producer: case indicesCh <- idx, for the next idx of indices
ProduceIndex ==
    /\ prodPc = "range"
    /\ produced < Len(indices)
    /\ Len(indicesCh) < NumProcess
    /\ indicesCh' = Append(indicesCh, indices[produced + 1])
    /\ produced' = produced + 1
    /\ UNCHANGED <<indices, faults, prodPc, closed, workPc, workIdx, idxContentCh,
                   feedPc, feedIc, seq, transactions, waitPc, ctxDone, genPc,
                   generated, lbaVars, listVars,
                   copyVars, dedupVars>>

\* producer: case <-ctx.Done(): return
ProducerCancelled ==
    /\ prodPc = "range"
    /\ produced < Len(indices)
    /\ ctxDone
    /\ prodPc' = "done"
    /\ UNCHANGED <<indices, faults, produced, indicesCh, closed, workPc, workIdx,
                   idxContentCh, feedPc, feedIc, seq, transactions, waitPc, ctxDone,
                   genPc, generated, lbaVars, listVars,
                   copyVars, dedupVars>>

\* producer: the loop over indices is over: close(indicesCh)
CloseIndices ==
    /\ prodPc = "range"
    /\ produced = Len(indices)
    /\ closed' = TRUE
    /\ prodPc' = "done"
    /\ UNCHANGED <<indices, faults, produced, indicesCh, workPc, workIdx, idxContentCh,
                   feedPc, feedIc, seq, transactions, waitPc, ctxDone, genPc,
                   generated, lbaVars, listVars,
                   copyVars, dedupVars>>

\* worker: for idx := range indicesCh receives an index
ReceiveIndex(w) ==
    /\ workPc[w] = "range"
    /\ indicesCh # <<>>
    /\ indicesCh' = Tail(indicesCh)
    /\ workIdx' = [workIdx EXCEPT ![w] = Head(indicesCh)]
    /\ workPc' = [workPc EXCEPT ![w] = "select"]
    /\ UNCHANGED <<indices, faults, produced, prodPc, closed, idxContentCh, feedPc,
                   feedIc, seq, transactions, waitPc, ctxDone, genPc, generated,
                   lbaVars, listVars, copyVars, dedupVars>>

\* worker: select { case <-ctx.Done(): return; default: ... }: the worker
\* returns when ctx is done by now, and goes on to GetBlock otherwise
WorkerSelect(w) ==
    /\ workPc[w] = "select"
    /\ workPc' = [workPc EXCEPT ![w] = IF ctxDone THEN "done" ELSE "fetch"]
    /\ UNCHANGED <<indices, faults, produced, prodPc, indicesCh, closed, workIdx,
                   idxContentCh, feedPc, feedIc, seq, transactions, waitPc, ctxDone,
                   genPc, generated, lbaVars, listVars, copyVars, dedupVars>>

\* worker: range indicesCh ends, the channel is closed and empty
WorkerDone(w) ==
    /\ workPc[w] = "range"
    /\ indicesCh = <<>>
    /\ closed
    /\ workPc' = [workPc EXCEPT ![w] = "done"]
    /\ UNCHANGED <<indices, faults, produced, prodPc, indicesCh, closed, workIdx,
                   idxContentCh, feedPc, feedIc, seq, transactions, waitPc, ctxDone,
                   genPc, generated, lbaVars, listVars,
                   copyVars, dedupVars>>

\* worker: content, err := sourceStorage.GetBlock(idx)
GetBlock(w) ==
    /\ workPc[w] = "fetch"
    /\ \E failed \in IF faults = "GetBlock" THEN BOOLEAN ELSE {FALSE} :
          workPc' = [workPc EXCEPT ![w] = IF failed THEN "err" ELSE "send"]
    /\ UNCHANGED <<indices, faults, produced, prodPc, indicesCh, closed, workIdx,
                   idxContentCh, feedPc, feedIc, seq, transactions, waitPc, ctxDone,
                   genPc, generated, lbaVars, listVars,
                   copyVars, dedupVars>>

\* worker: idxContentCh <- idxContent{idx, content}
SendContent(w) ==
    /\ workPc[w] = "send"
    /\ Len(idxContentCh) < NumProcess
    /\ idxContentCh' = Append(idxContentCh,
                              [idx |-> workIdx[w], content |-> SourceBlock(workIdx[w])])
    /\ workPc' = [workPc EXCEPT ![w] = "range"]
    /\ UNCHANGED <<indices, faults, produced, prodPc, indicesCh, closed, workIdx, feedPc,
                   feedIc, seq, transactions, waitPc, ctxDone, genPc, generated,
                   lbaVars, listVars,
                   copyVars, dedupVars>>

\* GenerateFromStorage at its select takes an error from errCh: return err,
\* and the deferred cancelFunc runs.
ReturnError ==
    /\ genPc' = "returned"
    /\ generated' = [returned |-> TRUE, err |-> TRUE, flushed |-> FALSE]
    /\ ctxDone' = TRUE

\* worker: errCh <- err; return, met by case err := <-errCh
WorkerSendsError(w) ==
    /\ workPc[w] = "err"
    /\ genPc = "select"
    /\ workPc' = [workPc EXCEPT ![w] = "done"]
    /\ ReturnError
    /\ UNCHANGED <<indices, faults, produced, prodPc, indicesCh, closed, workIdx,
                   idxContentCh, feedPc, feedIc, seq, transactions, waitPc,
                   lbaVars, listVars,
                   copyVars, dedupVars>>

\* feeder: for ic := range idxContentCh receives
ReceiveContent ==
    /\ feedPc = "range"
    /\ idxContentCh # <<>>
    /\ idxContentCh' = Tail(idxContentCh)
    /\ feedIc' = Head(idxContentCh)
    /\ feedPc' = "select"
    /\ UNCHANGED <<indices, faults, produced, prodPc, indicesCh, closed, workPc,
                   workIdx, seq, transactions, waitPc, ctxDone, genPc, generated,
                   lbaVars, listVars, copyVars, dedupVars>>

\* feeder: select { case <-ctx.Done(): return; default: ... }: the feeder
\* returns when ctx is done by now, and goes on to AddTransaction otherwise
FeederSelect ==
    /\ feedPc = "select"
    /\ feedPc' = IF ctxDone THEN "done" ELSE "add"
    /\ UNCHANGED <<indices, faults, produced, prodPc, indicesCh, closed, workPc,
                   workIdx, idxContentCh, feedIc, seq, transactions, waitPc, ctxDone,
                   genPc, generated, lbaVars, listVars, copyVars, dedupVars>>

\* feeder: err = g.flusher.AddTransaction(schema.OpSet, seq, ic.content, ic.idx,
\* ...); on an error it goes to send it; otherwise seq++ and the feeder
\* returns when int(seq) == len(indices)
AddTransaction ==
    /\ feedPc = "add"
    /\ \E failed \in IF faults = "AddTransaction" THEN BOOLEAN ELSE {FALSE} :
          IF failed
          THEN /\ feedPc' = "err"
               /\ UNCHANGED <<seq, transactions>>
          ELSE /\ transactions' = Append(transactions,
                                         [seq |-> seq, idx |-> feedIc.idx,
                                          content |-> feedIc.content])
               /\ seq' = seq + 1
               /\ feedPc' = IF seq + 1 = Len(indices) THEN "done" ELSE "range"
    /\ UNCHANGED <<indices, faults, produced, prodPc, indicesCh, closed, workPc, workIdx,
                   idxContentCh, feedIc, waitPc, ctxDone, genPc, generated, lbaVars,
                   listVars,
                   copyVars, dedupVars>>

\* feeder: errCh <- err; return, met by case err := <-errCh
FeederSendsError ==
    /\ feedPc = "err"
    /\ genPc = "select"
    /\ feedPc' = "done"
    /\ ReturnError
    /\ UNCHANGED <<indices, faults, produced, prodPc, indicesCh, closed, workPc, workIdx,
                   idxContentCh, feedIc, seq, transactions, waitPc, lbaVars,
                   listVars,
                   copyVars, dedupVars>>

\* waiter: wg.Wait() returns
WaitReturns ==
    /\ waitPc = "wait"
    /\ WaitGroupDone
    /\ waitPc' = "send"
    /\ UNCHANGED <<indices, faults, produced, prodPc, indicesCh, closed, workPc, workIdx,
                   idxContentCh, feedPc, feedIc, seq, transactions, ctxDone, genPc,
                   generated, lbaVars, listVars,
                   copyVars, dedupVars>>

\* waiter: doneCh <- struct{}{}, met by case <-doneCh
SendDone ==
    /\ waitPc = "send"
    /\ genPc = "select"
    /\ waitPc' = "done"
    /\ genPc' = "flush"
    /\ UNCHANGED <<indices, faults, produced, prodPc, indicesCh, closed, workPc, workIdx,
                   idxContentCh, feedPc, feedIc, seq, transactions, ctxDone,
                   generated, lbaVars, listVars,
                   copyVars, dedupVars>>

\* _, err = g.flusher.Flush(); return err, and the deferred cancelFunc runs
FlushAndReturn ==
    /\ genPc = "flush"
    /\ genPc' = "returned"
    /\ \E failed \in IF faults = "none" THEN {FALSE} ELSE BOOLEAN :
          generated' = [returned |-> TRUE, err |-> failed, flushed |-> TRUE]
    /\ ctxDone' = TRUE
    /\ UNCHANGED <<indices, faults, produced, prodPc, indicesCh, closed, workPc, workIdx,
                   idxContentCh, feedPc, feedIc, seq, transactions, waitPc, lbaVars,
                   listVars,
                   copyVars, dedupVars>>

\* ------------------------------------------- copyDifferentConnections

\* Fields a source volume holds at most.
MaxFields == 2

\* The decimal digits, by value.
Digits == <<"0", "1", "2", "3", "4", "5", "6", "7", "8", "9">>

IsDigit(c) == \E i \in 1..Len(Digits) : Digits[i] = c

DigitValue(c) == (CHOOSE i \in 1..Len(Digits) : Digits[i] = c) - 1

\* The value of a string of digits, read from the left.
RECURSIVE DigitsValue(_, _)
DigitsValue(str, acc) ==
    IF str = <<>> THEN acc
    ELSE DigitsValue(Tail(str), acc * 10 + DigitValue(Head(str)))

\* strconv.ParseInt(rawIndex, 10, 64) on a string given as its characters: an
\* optional sign, then one digit or more. (The strings here are too short to
\* leave the range of int64.)
ParseInt(str) ==
    LET signed == str # <<>> /\ Head(str) \in {"+", "-"}
        digits == IF signed THEN Tail(str) ELSE str
    IN  IF digits = <<>> \/ \E i \in 1..Len(digits) : ~IsDigit(digits[i])
        THEN [ok |-> FALSE, value |-> 0]
        ELSE [ok |-> TRUE,
              value |-> IF signed /\ Head(str) = "-"
                        THEN 0 - DigitsValue(digits, 0)
                        ELSE DigitsValue(digits, 0)]

\* The argument index (an int64) as the connection writes it: its decimal form.
RECURSIVE FormatInt(_)
FormatInt(n) ==
    IF n < 0 THEN <<"-">> \o FormatInt(0 - n)
    ELSE IF n < 10 THEN <<Digits[n + 1]>>
    ELSE FormatInt(n \div 10) \o <<Digits[(n % 10) + 1]>>

\* Field names of a source volume: decimal indices as the LBA writes them,
\* other spellings of an integer, and a name that is no integer.
FieldNames ==
    {<<"0">>, <<"1">>, <<"1", "2">>, <<"0", "1">>, <<"+", "1">>, <<"-", "1">>, <<"x">>}

\* The values of a volume's fields (serialized shards), as opaque bytes.
FieldValues == {"s1", "s2"}

EmptyVolume == [f \in {} |-> ""]

\* Source volumes: at most MaxFields fields.
Volumes ==
    UNION {[F -> FieldValues] : F \in {G \in SUBSET FieldNames : Cardinality(G) <= MaxFields}}

\* The field another client writes into the target volume.
OtherField == <<"7">>

\* HSET volume field value
HSet(v, f, h) == [g \in DOMAIN v \cup {f} |-> IF g = f THEN h ELSE v[g]]

\* Target volumes before the copy: absent, or holding a field of an older copy.
OldVolumes == {EmptyVolume, HSet(EmptyVolume, <<"3">>, "s1")}

Command(c) == [cmd |-> c, field |-> <<>>, value |-> ""]

HSetCommand(f, h) == [cmd |-> "HSET", field |-> f, value |-> h]

\* What the queued commands of a transaction do to the volume when EXEC
\* runs them, in the order they were queued.
RECURSIVE Execute(_, _)
Execute(v, cmds) ==
    IF cmds = <<>> THEN v
    ELSE LET c == Head(cmds)
         IN  Execute(IF c.cmd = "DEL" THEN EmptyVolume
                     ELSE IF c.cmd = "HSET" THEN HSet(v, c.field, c.value)
                     ELSE v,
                     Tail(cmds))

NotCopied == [returned |-> FALSE, err |-> "ok"]

\* copyDifferentConnections is not running.
CopyIdle ==
    /\ srcVolume = EmptyVolume
    /\ dstVolume = EmptyVolume
    /\ unreliable = FALSE
    /\ data = EmptyVolume
    /\ remaining = {}
    /\ buffered = <<>>
    /\ brokenB = FALSE
    /\ delivered = <<>>
    /\ watched = "no"
    /\ openA = FALSE
    /\ openB = FALSE
    /\ copyPc = "none"
    /\ copied = NotCopied
    /\ otherAt = "none"
    /\ untouched = EmptyVolume

\* return with err = e; the deferred function closes connA and connB.
CopyReturn(e) ==
    /\ copyPc' = "returned"
    /\ copied' = [returned |-> TRUE, err |-> e]
    /\ openA' = FALSE
    /\ openB' = FALSE

\* Whether a command on a connection fails.
CommandFails == IF unreliable THEN BOOLEAN ELSE {FALSE}

\* data, err := redis.StringMap(connA.Do("HGETALL", input.Source.Volume));
\* return on an error, and with an error when data is empty
HGetAll ==
    /\ copyPc = "hgetall"
    /\ \E failed \in CommandFails :
          IF failed
          THEN CopyReturn("io") /\ UNCHANGED <<data, remaining>>
          ELSE /\ data' = srcVolume
               /\ remaining' = DOMAIN srcVolume
               /\ IF srcVolume = EmptyVolume
                  THEN CopyReturn("empty")
                  ELSE copyPc' = "watch" /\ UNCHANGED <<copied, openA, openB>>
    /\ UNCHANGED <<srcVolume, dstVolume, unreliable, buffered, brokenB, delivered,
                   watched, otherAt, untouched, lbaVars, listVars, genVars,
                   dedupVars>>

\* if err = connB.Send(c); err != nil { return }: the command is buffered,
\* and the function goes on to next.
Send(c, next) ==
    \E failed \in CommandFails :
        IF failed
        THEN CopyReturn("send") /\ brokenB' = TRUE /\ UNCHANGED buffered
        ELSE /\ buffered' = Append(buffered, Command(c))
             /\ copyPc' = next
             /\ UNCHANGED <<copied, openA, openB, brokenB>>

\* connB.Send("WATCH", input.Target.Volume)
SendWatch ==
    /\ copyPc = "watch"
    /\ Send("WATCH", "multi")
    /\ UNCHANGED <<srcVolume, dstVolume, unreliable, data, remaining, delivered,
                   watched, otherAt, untouched, lbaVars, listVars, genVars,
                   dedupVars>>

\* connB.Send("MULTI")
SendMulti ==
    /\ copyPc = "multi"
    /\ Send("MULTI", "del")
    /\ UNCHANGED <<srcVolume, dstVolume, unreliable, data, remaining, delivered,
                   watched, otherAt, untouched, lbaVars, listVars, genVars,
                   dedupVars>>

\* A copy that does not delete the target volume.
SendDelSkipped ==
    /\ copyPc = "del"
    /\ copyPc' = "hset"
    /\ UNCHANGED <<srcVolume, dstVolume, unreliable, data, remaining, buffered,
                   brokenB, delivered, watched, openA, openB, copied, otherAt,
                   untouched, lbaVars, listVars, genVars,
                   dedupVars>>

\* connB.Send("DEL", input.Target.Volume)
SendDel ==
    /\ copyPc = "del"
    /\ Send("DEL", "hset")
    /\ UNCHANGED <<srcVolume, dstVolume, unreliable, data, remaining, delivered,
                   watched, otherAt, untouched, lbaVars, listVars, genVars,
                   dedupVars>>

\* One round of for rawIndex, hash := range data, in any order of the
\* fields: return when rawIndex is no integer; otherwise
\* connB.Send("HSET", input.Target.Volume, index, []byte(hash)), whose error
\* is dropped.
SendHSet ==
    /\ copyPc = "hset"
    /\ \E rawIndex \in remaining :
          LET index == ParseInt(rawIndex)
          IN  IF ~index.ok
              THEN CopyReturn("parse") /\ UNCHANGED <<remaining, buffered, brokenB>>
              ELSE /\ remaining' = remaining \ {rawIndex}
                   /\ \E failed \in IF brokenB THEN {TRUE} ELSE CommandFails :
                         IF failed
                         THEN brokenB' = TRUE /\ UNCHANGED buffered
                         ELSE /\ buffered' = Append(buffered,
                                      HSetCommand(FormatInt(index.value), data[rawIndex]))
                              /\ UNCHANGED brokenB
                   /\ UNCHANGED <<copyPc, copied, openA, openB>>
    /\ UNCHANGED <<srcVolume, dstVolume, unreliable, data, delivered, watched,
                   otherAt, untouched, lbaVars, listVars, genVars,
                   dedupVars>>

\* response, err := connB.Do("EXEC"), first half: the buffered commands and
\* EXEC are written to the server, which runs the WATCH; on a connection that
\* has failed, or when the write fails, nothing reaches the server and the
\* error is returned.
DoExec ==
    /\ copyPc = "hset"
    /\ remaining = {}
    /\ \E failed \in IF brokenB THEN {TRUE} ELSE CommandFails :
          IF failed
          THEN CopyReturn("send") /\ UNCHANGED <<delivered, watched>>
          ELSE /\ delivered' = Append(buffered, Command("EXEC"))
               /\ watched' = "clean"
               /\ copyPc' = "exec"
               /\ UNCHANGED <<copied, openA, openB>>
    /\ UNCHANGED <<srcVolume, dstVolume, unreliable, data, remaining, buffered,
                   brokenB, otherAt, untouched, lbaVars, listVars, genVars,
                   dedupVars>>

\* connB.Do("EXEC"), second half: the server runs EXEC. When the watched
\* volume was modified nothing is executed and the reply is nil: the
\* function returns its own error. Otherwise the queued commands are
\* executed as one. Either way the reply is read, or reading it fails and
\* the error of Do is returned.
ServerExec ==
    /\ copyPc = "exec"
    /\ watched' = "done"
    /\ \E failed \in CommandFails :
          IF watched = "dirty"
          THEN CopyReturn(IF failed THEN "lost" ELSE "busy") /\ UNCHANGED dstVolume
          ELSE /\ dstVolume' = Execute(dstVolume, delivered)
               /\ CopyReturn(IF failed THEN "lost" ELSE "ok")
    /\ UNCHANGED <<srcVolume, unreliable, data, remaining, buffered, brokenB,
                   delivered, otherAt, untouched, lbaVars, listVars, genVars,
                   dedupVars>>

\* Another client of the target server writes a field into the target
\* volume, once: the server marks the WATCH of connB.
OtherWrite ==
    /\ copyPc # "none"
    /\ otherAt = "none"
    /\ otherAt' = IF watched = "no" THEN "early"
                  ELSE IF watched = "clean" THEN "watched" ELSE "late"
    /\ watched' = IF watched = "clean" THEN "dirty" ELSE watched
    /\ dstVolume' = HSet(dstVolume, OtherField, "s2")
    /\ untouched' = HSet(untouched, OtherField, "s2")
    /\ UNCHANGED <<srcVolume, unreliable, data, remaining, buffered, brokenB,
                   delivered, openA, openB, copyPc, copied, lbaVars, listVars,
                   genVars,
                   dedupVars>>

OthersIdle == ListIdle /\ GenIdle /\ CopyIdle /\ DedupIdle

\* for server := range serverCh { go func() {...}(); serverCount++ }
StartGoroutine ==
    /\ mpc = "range"
    /\ serverCount < NumServers
    /\ serverCount' = serverCount + 1
    /\ gpc' = [gpc EXCEPT ![serverCount + 1] = "do"]
    /\ UNCHANGED <<servers, reply, result, mpc, received, ids, listed, lbaVars, genVars, copyVars, dedupVars>>

\* serverCh is closed: the collecting loop starts.
EndRange ==
    /\ mpc = "range"
    /\ serverCount = NumServers
    /\ mpc' = "collect"
    /\ UNCHANGED <<servers, reply, gpc, result, serverCount, received, ids, listed, lbaVars, genVars, copyVars, dedupVars>>

\* goroutine: reply, result.err = server.Do(action); reply is the variable of
\* ListVdisks that every goroutine writes.
ServerDo(g) ==
    /\ gpc[g] = "do"
    /\ reply' = servers[g].reply
    /\ result' = [result EXCEPT ![g].err = servers[g].err]
    /\ gpc' = [gpc EXCEPT ![g] = "check"]
    /\ UNCHANGED <<servers, mpc, serverCount, received, ids, listed, lbaVars, genVars, copyVars, dedupVars>>

\* goroutine: if result.err == nil && reply != nil
CheckReply(g) ==
    /\ gpc[g] = "check"
    /\ gpc' = [gpc EXCEPT ![g] = IF ~result[g].err /\ ~reply.isNil THEN "assert" ELSE "send"]
    /\ UNCHANGED <<servers, reply, result, mpc, serverCount, received, ids, listed, lbaVars, genVars, copyVars, dedupVars>>

\* goroutine: result.ids = reply.([]string); the assertion panics on nil, and
\* the panic of a goroutine ends the program.
AssertReply(g) ==
    /\ gpc[g] = "assert"
    /\ mpc # "panic"
    /\ IF reply.isNil
       THEN /\ gpc' = [gpc EXCEPT ![g] = "panic"]
            /\ mpc' = "panic"
            /\ listed' = [listed EXCEPT !.panic = TRUE]
            /\ UNCHANGED result
       ELSE /\ result' = [result EXCEPT ![g].ids = reply.ids]
            /\ gpc' = [gpc EXCEPT ![g] = "send"]
            /\ UNCHANGED <<mpc, listed>>
    /\ UNCHANGED <<servers, reply, serverCount, received, ids, lbaVars, genVars, copyVars, dedupVars>>

\* goroutine: resultCh <- result, met by result = <-resultCh of the collecting
\* loop; an error returns at once, the deferred cancel() ends the context.
SendResult(g) ==
    /\ gpc[g] = "send"
    /\ mpc = "collect"
    /\ received < serverCount
    /\ gpc' = [gpc EXCEPT ![g] = "done"]
    /\ IF result[g].err
       THEN /\ listed' = [returned |-> TRUE, ids |-> <<>>, err |-> TRUE, panic |-> FALSE]
            /\ mpc' = "done"
            /\ UNCHANGED <<received, ids>>
       ELSE /\ ids' = ids \o result[g].ids
            /\ received' = received + 1
            /\ UNCHANGED <<mpc, listed>>
    /\ UNCHANGED <<servers, reply, result, serverCount, lbaVars, genVars, copyVars, dedupVars>>

\* goroutine: case <-ctx.Done()
ContextDone(g) ==
    /\ gpc[g] = "send"
    /\ mpc = "done"
    /\ gpc' = [gpc EXCEPT ![g] = "done"]
    /\ UNCHANGED <<servers, reply, result, mpc, serverCount, received, ids, listed, lbaVars, genVars, copyVars, dedupVars>>

\* All results are in: ids is returned, sorted and deduplicated when it has
\* more than one element.
ReturnIds ==
    /\ mpc = "collect"
    /\ received = serverCount
    /\ listed' = [returned |-> TRUE,
                  ids |-> IF Len(ids) <= 1 THEN ids ELSE dedupStrings(sortStrings(ids)),
                  err |-> FALSE, panic |-> FALSE]
    /\ mpc' = "done"
    /\ UNCHANGED <<servers, reply, gpc, result, serverCount, received, ids, lbaVars, genVars, copyVars, dedupVars>>

\* ------------------------------------------------------------ the provider

\* What a use of a connection can end in: done, no connection to be had
\* (MetaRedisConnection fails), or the command fails.
IOOutcomes == IF reliable THEN {"ok"} ELSE {"ok", "noconn", "ioerr"}

ErrorOf(o) ==
    IF o = "noconn" THEN "Unavailable" ELSE IF o = "ioerr" THEN "IOError" ELSE "ok"

\* Connections MetaRedisConnection hands out when the use ends in o.
ConnOpened(o) == IF o = "noconn" THEN 0 ELSE 1

\* A function that closes its connection when its command succeeded only.
ConnClosedOnSuccess(o) == IF o = "ok" THEN 1 ELSE 0

\* `defer conn.Close()`: connections a function that took its connection with
\* outcome o has closed when it returns.
ConnClosed(o) == IF o = "noconn" THEN 0 ELSE 1

\* ---------------------------------------------------------- heap support

\* The heap is the sequence of the shard objects something points to; a shard
\* pointer is a position in it.

RefsOf(order) == {order[i] : i \in 1..Len(order)}

CachedRefSeq(c) ==
    LET Live(r) == r # NilRef IN SelectSeq([i \in 1..Len(c) |-> c[i].shard], Live)

RECURSIVE LiveOrder(_, _, _)
LiveOrder(order, rf, t) ==
    IF t > NumThreads THEN order
    ELSE LiveOrder(IF rf[t] = NilRef \/ rf[t] \in RefsOf(order) THEN order
                   ELSE Append(order, rf[t]), rf, t + 1)

\* No transaction of a Flush is open.
NoTxn == [cmds |-> {}, broken |-> FALSE, aborted |-> FALSE, seen |-> {}]

\* No entry is waiting for its eviction callback.
NoEviction ==
    [pending |-> FALSE, index |-> 0, shard |-> NilRef, do |-> "return",
     seen |-> newShard, buffer |-> <<>>]

\* The shard pointers the pending evictions ev hold.
EvictingRefs(ev) == [t \in Threads |-> IF ev[t].pending THEN ev[t].shard ELSE NilRef]

\* Drops the shard objects that neither the cache, nor a thread, nor a pending
\* eviction points to, and numbers the others in the order of the cache, then
\* of the threads, then of the pending evictions.
Collect(c, h, rf, ev) ==
    LET ord == LiveOrder(LiveOrder(CachedRefSeq(c), rf, 1), EvictingRefs(ev), 1)
        New(r) == IF r = NilRef THEN NilRef ELSE CHOOSE i \in 1..Len(ord) : ord[i] = r
    IN  [cache |-> [i \in 1..Len(c) |-> [index |-> c[i].index, shard |-> New(c[i].shard)]],
         heap  |-> [i \in 1..Len(ord) |-> h[ord[i]]],
         ref   |-> [t \in Threads |-> New(rf[t])],
         evicting |-> [t \in Threads |-> [ev[t] EXCEPT !.shard = New(@)]]]

FreshId(h) == Len(h) + 1

Alloc(h, s) == Append(h, s)

\* ------------------------------------------------- eviction (lba.go 144-254)

\* The dirty state of a cache entry as the cache sees it (Serialize): a nil
\* shard is a deletion still to be propagated.
EntryDirty(h, r) == IF r = NilRef THEN TRUE ELSE h[r].dirty

\* What a function of the eviction path leaves: the store, the heap, its error,
\* the connections it took and the commands it produced.
Evicted(st, h, e, conns, sent) ==
    [store |-> st, heap |-> h, err |-> e, conns |-> conns, sent |-> sent]

\* What the eviction callback has decided once it has read the shard: to
\* return, to store buffer, to delete the field, or that it has panicked.
Decided(do, buffer) == [do |-> do, buffer |-> buffer]

\* storeShardInExternalStorage(index, shard), first half: a shard that is not
\* dirty is not stored; a dirty one is serialized into a buffer.
storeShardBuffer(h, r) ==
    IF ~h[r].dirty THEN Decided("return", <<>>)
    ELSE Decided("store", ShardWrite(h[r]))

\* storeShardInExternalStorage that reports success without sending the HSET.
storeShardWithoutHSet(st, h, index, r, buffer, o) ==
    IF o = "ok" THEN Evicted(st, h, "ok", 0, <<>>)
    ELSE Evicted(st, h, ErrorOf(o), 0, <<>>)

\* storeShardInExternalStorage(index, shard), second half: a connection is
\* taken, HSET of the buffer is sent and its reply awaited, the connection
\* ending in o; on an error the dirty bit of the shard is cleared.
storeShardInExternalStorage(st, h, index, r, buffer, o) ==
    IF o = "noconn" THEN Evicted(st, h, ErrorOf(o), 0, <<>>)
    ELSE IF o = "ioerr"
         THEN Evicted(st, [h EXCEPT ![r] = UnsetDirty(h[r])], ErrorOf(o), 1, <<"HSET">>)
    ELSE Evicted([st EXCEPT ![index] = Field(buffer)], h, "ok", 1, <<"HSET">>)

\* deleteShardFromExternalStorage(index) with the connection ending in o.
deleteShardFromExternalStorage(st, h, index, o) ==
    IF o = "noconn" THEN Evicted(st, h, ErrorOf(o), 0, <<>>)
    ELSE IF o = "ioerr" THEN Evicted(st, h, ErrorOf(o), 1, <<"HDEL">>)
    ELSE Evicted([st EXCEPT ![index] = Absent], h, "ok", 1, <<"HDEL">>)

\* onCacheEviction with the dirty test the wrong way round: a dirty shard is
\* dropped without being stored.
onCacheEvictionSkipsDirty(h, r) ==
    IF r = NilRef THEN Decided("panic", <<>>)
    ELSE IF h[r].dirty THEN Decided("return", <<>>)
    ELSE storeShardBuffer(h, r)

\* onCacheEviction that stores the shard without asking whether it is dirty.
onCacheEvictionStoresClean(h, r) ==
    IF r = NilRef THEN Decided("panic", <<>>)
    ELSE Decided("store", ShardWrite(h[r]))

\* onCacheEviction(index, shard), up to the use of the store.
\* shard.Dirty() is called before shard is compared with nil: on a nil shard
\* the read of the dirty bit is a nil dereference and the goroutine panics.
onCacheEviction(h, r) ==
    IF r = NilRef THEN Decided("panic", <<>>)
    ELSE IF ~h[r].dirty THEN Decided("return", <<>>)
    ELSE IF r # NilRef THEN storeShardBuffer(h, r)
    ELSE Decided("delete", <<>>)

\* ------------------------------------------------------------ shard cache

CachePos(c, index) ==
    IF \E i \in 1..Len(c) : c[i].index = index
    THEN CHOOSE i \in 1..Len(c) : c[i].index = index
    ELSE 0

Without(c, i) == SubSeq(c, 1, i - 1) \o SubSeq(c, i + 1, Len(c))

MoveToFront(c, i) == <<c[i]>> \o Without(c, i)

\* cache.Add(index, shard): replaces in place, or inserts as most recent and
\* takes the least recently used entry out when the cache is over its size;
\* that entry is then handed to onCacheEviction.
CacheAdd(c, index, r) ==
    LET p == CachePos(c, index) IN
    IF p > 0
    THEN [cache |-> <<[index |-> index, shard |-> r]>> \o Without(c, p),
          evicted |-> <<>>]
    ELSE LET c1 == <<[index |-> index, shard |-> r]>> \o c IN
         IF Len(c1) > CacheSize(cacheLimit)
         THEN [cache |-> SubSeq(c1, 1, Len(c1) - 1), evicted |-> <<c1[Len(c1)]>>]
         ELSE [cache |-> c1, evicted |-> <<>>]

\* cache.Serialize(emit), one entry: the entries of the cache that the
\* iteration has not come to yet, given the indices it has seen.
Unseen(c, seen) == {i \in 1..Len(c) : c[i].index \notin seen}

\* cache.Serialize(emit), one entry: what emit is called with for the dirty
\* entry at position i, the bytes of a live shard as it is now or a deletion
\* for a nil shard.  Dirty bits are left as they are.
CacheSerialize(c, h, i) ==
    [index |-> c[i].index,
     del   |-> c[i].shard = NilRef,
     bytes |-> IF c[i].shard = NilRef THEN <<>> ELSE ShardWrite(h[c[i].shard])]

\* The store after the commands of a committed transaction.
Apply(st, cmds) ==
    [i \in DOMAIN st |->
        IF \E c \in cmds : c.index = i
        THEN LET c == CHOOSE c \in cmds : c.index = i
             IN  IF c.del THEN Absent ELSE Field(c.bytes)
        ELSE st[i]]

\* The field of the shard of block b in store st holds a hash for b that is
\* not the nil hash.
HoldsHash(st, b) ==
    /\ st[ShardIndexOf(b)].present
    /\ ShardBytesOk(st[ShardIndexOf(b)].bytes)
    /\ ~IsNil(ShardGet(shardFromBytes(st[ShardIndexOf(b)].bytes), HashIndexOf(b)))

\* ------------------------------------------------------- the operations

AllIdle == \A t \in Threads : pc[t] = "idle"

Begin(t, o) ==
    /\ pc[t] = "idle"
    /\ pc' = [pc EXCEPT ![t] = IF o.kind = "Flush" THEN "multi" ELSE "lock"]
    /\ op' = [op EXCEPT ![t] = o]
    /\ err' = [err EXCEPT ![t] = "ok"]
    /\ res' = [res EXCEPT ![t] = Nil]
    /\ fetched' = [fetched EXCEPT ![t] = FALSE]
    /\ UNCHANGED <<open, store, cache, heap, shardMux, cacheLimit, reliable, others, evicting, ref, txn,
                   evictLog, lastSet>>

\* Set(blockIndex, h), Delete(blockIndex) = Set(blockIndex, nil), Get(blockIndex)
\* and Flush() are called.
CallSet(t, b, h) == Begin(t, [kind |-> "Set", block |-> b, hash |-> h, beside |-> FALSE, again |-> FALSE])

\* A Delete that sets a hash that is not nil.
CallDeleteSetsHash(t, b) ==
    Begin(t, [kind |-> "Delete", block |-> b, hash |-> [i \in 1..HashSize |-> 1], beside |-> FALSE, again |-> FALSE])

CallDelete(t, b) == Begin(t, [kind |-> "Delete", block |-> b, hash |-> Nil, beside |-> FALSE, again |-> FALSE])

CallGet(t, b) == Begin(t, [kind |-> "Get", block |-> b, hash |-> Nil, beside |-> FALSE, again |-> FALSE])

CallFlush(t) == Begin(t, [kind |-> "Flush", block |-> 0, hash |-> Nil, beside |-> FALSE, again |-> FALSE])

Writes(o) == o.kind \in {"Set", "Delete"}

\* A thread is inside storeCacheInExternalStorage.
FlushRunning == \E u \in Threads : pc[u] \in {"multi", "serialize", "exec"}

\* Set and Get without the wait for the shard's mutex.
LockWithoutWaiting(t) ==
    /\ pc[t] = "lock"
    /\ shardMux' = [shardMux EXCEPT ![ShardIndexOf(op[t].block)] = t]
    /\ pc' = [pc EXCEPT ![t] = "lookup"]
    /\ UNCHANGED <<open, store, cache, heap, cacheLimit, reliable, others, evicting, op, ref, err, res,
                   txn, fetched, evictLog, lastSet>>

\* lba.shardMux[shardIndex].Lock()
Lock(t) ==
    /\ pc[t] = "lock"
    /\ shardMux[ShardIndexOf(op[t].block)] = 0
    /\ shardMux' = [shardMux EXCEPT ![ShardIndexOf(op[t].block)] = t]
    /\ pc' = [pc EXCEPT ![t] = "lookup"]
    /\ UNCHANGED <<open, store, cache, heap, cacheLimit, reliable, others, evicting, op, ref, err, res,
                   txn, fetched, evictLog, lastSet>>

\* getShard: lba.cache.Get(index); a hit makes the entry the most recent one.
\* A getShard that does not look into the cache.
LookupAlwaysMisses(t) ==
    /\ pc[t] = "lookup"
    /\ LET n == Collect(cache, heap, [ref EXCEPT ![t] = NilRef], evicting)
       IN  cache' = n.cache /\ heap' = n.heap /\ ref' = n.ref
               /\ evicting' = n.evicting
    /\ pc' = [pc EXCEPT ![t] = "fetch"]
    /\ UNCHANGED <<open, store, shardMux, cacheLimit, reliable, others, op, err, res,
                   txn, fetched, evictLog, lastSet>>

Lookup(t) ==
    LET index == ShardIndexOf(op[t].block)
        p     == CachePos(cache, index)
        hit   == p > 0 /\ cache[p].shard # NilRef
    IN  /\ pc[t] = "lookup"
        /\ LET n == Collect(IF p > 0 THEN MoveToFront(cache, p) ELSE cache, heap,
                             [ref EXCEPT ![t] = IF hit THEN cache[p].shard ELSE NilRef],
                             evicting)
           IN  cache' = n.cache /\ heap' = n.heap /\ ref' = n.ref
               /\ evicting' = n.evicting
        /\ pc' = [pc EXCEPT ![t] = IF hit THEN "unlock" ELSE "fetch"]
        /\ UNCHANGED <<open, store, shardMux, cacheLimit, reliable, others, op, err, res,
                       txn, fetched, evictLog, lastSet>>

\* A getShardFromExternalStorage that takes a field of the wrong length for no
\* field.
FetchIgnoresLength(t) ==
    LET index == ShardIndexOf(op[t].block) IN
    /\ pc[t] = "fetch"
    /\ \E o \in IOOutcomes :
         /\ open' = [open EXCEPT ![t] = @ + ConnOpened(o) - ConnClosed(o)]
         /\ fetched' = [fetched EXCEPT ![t] = o # "noconn"]
         /\ IF o # "ok"
            THEN /\ err' = [err EXCEPT ![t] = ErrorOf(o)]
                 /\ pc' = [pc EXCEPT ![t] = "unlock"]
                 /\ UNCHANGED <<heap, ref>>
            ELSE IF ~store[index].present \/ ~ShardBytesOk(store[index].bytes)
            THEN /\ pc' = [pc EXCEPT ![t] = IF Writes(op[t]) THEN "new" ELSE "unlock"]
                 /\ UNCHANGED <<heap, ref, err>>
            ELSE /\ heap' = Alloc(heap, shardFromBytes(store[index].bytes))
                 /\ ref' = [ref EXCEPT ![t] = FreshId(heap)]
                 /\ pc' = [pc EXCEPT ![t] = "add"]
                 /\ UNCHANGED err
    /\ UNCHANGED <<store, cache, shardMux, cacheLimit, reliable, others, evicting, op, res, txn,
                   evictLog, lastSet>>

\* getShard: getShardFromExternalStorage(index): HGET of the field on a
\* connection of its own, and shardFromBytes of the reply.  Without a
\* connection no HGET is sent.
Fetch(t) ==
    LET index == ShardIndexOf(op[t].block) IN
    /\ pc[t] = "fetch"
    /\ \E o \in IOOutcomes :
         /\ open' = [open EXCEPT ![t] = @ + ConnOpened(o) - ConnClosed(o)]
         /\ fetched' = [fetched EXCEPT ![t] = o # "noconn"]
         /\ IF o # "ok"
            THEN /\ err' = [err EXCEPT ![t] = ErrorOf(o)]
                 /\ pc' = [pc EXCEPT ![t] = "unlock"]
                 /\ UNCHANGED <<heap, ref>>
            ELSE IF ~store[index].present
            THEN /\ pc' = [pc EXCEPT ![t] = IF Writes(op[t]) THEN "new" ELSE "unlock"]
                 /\ UNCHANGED <<heap, ref, err>>
            ELSE IF ~ShardBytesOk(store[index].bytes)
            THEN /\ err' = [err EXCEPT ![t] = "CorruptShard"]
                 /\ pc' = [pc EXCEPT ![t] = "unlock"]
                 /\ UNCHANGED <<heap, ref>>
            ELSE /\ heap' = Alloc(heap, shardFromBytes(store[index].bytes))
                 /\ ref' = [ref EXCEPT ![t] = FreshId(heap)]
                 /\ pc' = [pc EXCEPT ![t] = "add"]
                 /\ UNCHANGED err
    /\ UNCHANGED <<store, cache, shardMux, cacheLimit, reliable, others, evicting, op, res, txn,
                   evictLog, lastSet>>

\* An insertion into the cache that evicts nothing.
AddToCacheKeepsAll(t, h, r) ==
    LET index == ShardIndexOf(op[t].block)
        p     == CachePos(cache, index)
        n     == Collect(<<[index |-> index, shard |-> r]>>
                            \o (IF p > 0 THEN Without(cache, p) ELSE cache),
                         h, [ref EXCEPT ![t] = r], evicting)
    IN  /\ cache' = n.cache
        /\ heap' = n.heap
        /\ ref' = n.ref
        /\ evicting' = n.evicting
        /\ evictLog' = <<>>
        /\ pc' = [pc EXCEPT ![t] = "unlock"]

\* lba.cache.Add(index, shard) by thread t, up to the call of the eviction
\* callback: the entry to evict is out of the cache, nothing has been sent to
\* the store yet.
AddToCache(t, h, r) ==
    LET a  == CacheAdd(cache, ShardIndexOf(op[t].block), r)
        ev == IF a.evicted = <<>> THEN evicting
              ELSE [evicting EXCEPT ![t] = [NoEviction EXCEPT
                                               !.pending = TRUE,
                                               !.index = a.evicted[1].index,
                                               !.shard = a.evicted[1].shard]]
        n  == Collect(a.cache, h, [ref EXCEPT ![t] = r], ev)
    IN  /\ cache' = n.cache
        /\ heap' = n.heap
        /\ ref' = n.ref
        /\ evicting' = n.evicting
        /\ evictLog' = <<>>
        /\ pc' = [pc EXCEPT ![t] = IF a.evicted = <<>> THEN "unlock" ELSE "evict"]

\* getShard: the fetched shard is added to the cache.
AddFetched(t) ==
    /\ pc[t] = "add"
    /\ AddToCache(t, heap, ref[t])
    /\ UNCHANGED <<open, store, shardMux, cacheLimit, reliable, others, op, err, res,
                   txn, fetched, lastSet>>

\* Set: no shard in the cache nor in the store: newShard() is added to the
\* cache.
AddNew(t) ==
    /\ pc[t] = "new"
    /\ AddToCache(t, Alloc(heap, newShard), FreshId(heap))
    /\ UNCHANGED <<open, store, shardMux, cacheLimit, reliable, others, op, err, res,
                   txn, fetched, lastSet>>

\* What the eviction callback of thread t leaves in evictLog: the entry, the
\* shard as the callback read it and its dirty bit after, the error, the
\* connections taken, the commands sent, the stored field before and after.
EvictionRecord(t, seen, ev) ==
    LET e == evicting[t] IN
    [index |-> e.index,
     shard |-> seen,
     live  |-> e.shard # NilRef,
     after |-> IF e.shard = NilRef THEN TRUE ELSE ev.heap[e.shard].dirty,
     err   |-> ev.err,
     conns |-> ev.conns,
     sent  |-> ev.sent,
     was   |-> store[e.index],
     now   |-> ev.store[e.index]]

\* The state after the eviction callback of thread t: a panic of the callback
\* unwinds the caller, whose deferred Unlock runs, and the caller never
\* returns.
AfterEviction(t, seen, ev, o) ==
    LET n == Collect(cache, ev.heap, ref, [evicting EXCEPT ![t] = NoEviction])
    IN  /\ store' = ev.store
        /\ cache' = n.cache
        /\ heap' = n.heap
        /\ ref' = n.ref
        /\ evicting' = n.evicting
        /\ evictLog' = <<EvictionRecord(t, seen, ev)>>
        /\ open' = [open EXCEPT ![t] =
                        @ + ev.conns - (IF ev.conns > 0 THEN ConnClosed(o) ELSE 0)]
        /\ pc' = [pc EXCEPT ![t] = IF ev.err = "panic" THEN "panicked" ELSE "unlock"]
        /\ shardMux' = IF ev.err = "panic"
                       THEN [shardMux EXCEPT ![ShardIndexOf(op[t].block)] = 0]
                       ELSE shardMux

\* cache.Add, second part: onCacheEviction(index, shard) runs for the entry
\* taken out of the cache, under the mutex of the shard that was added: it
\* reads the dirty bit and serializes a dirty shard into a buffer.
EvictShard(t) ==
    /\ pc[t] = "evict"
    /\ LET e    == evicting[t]
           d    == onCacheEviction(heap, e.shard)
           seen == IF e.shard = NilRef THEN newShard ELSE heap[e.shard]
       IN  IF d.do \in {"store", "delete"}
           THEN /\ evicting' = [evicting EXCEPT ![t] =
                                   [e EXCEPT !.do = d.do, !.seen = seen,
                                             !.buffer = d.buffer]]
                /\ pc' = [pc EXCEPT ![t] = "store"]
                /\ UNCHANGED <<store, cache, heap, ref, evictLog, open, shardMux>>
           ELSE AfterEviction(t, seen,
                              Evicted(store, heap,
                                      IF d.do = "panic" THEN "panic" ELSE "ok",
                                      0, <<>>), "ok")
    /\ UNCHANGED <<cacheLimit, reliable, others, op, err, res, txn, fetched, lastSet>>

\* An eviction callback that hands the error of the store to the caller of
\* cache.Add.
StoreEvictedReturnsError(t) ==
    /\ pc[t] = "store"
    /\ \E o \in IOOutcomes :
         LET e  == evicting[t]
             ev == IF e.do = "store"
                   THEN storeShardInExternalStorage(store, heap, e.index, e.shard,
                                                    e.buffer, o)
                   ELSE deleteShardFromExternalStorage(store, heap, e.index, o)
         IN  /\ AfterEviction(t, e.seen, ev, o)
             /\ err' = [err EXCEPT ![t] = ev.err]
    /\ UNCHANGED <<cacheLimit, reliable, others, op, res, txn, fetched, lastSet>>

\* cache.Add, third part: the eviction callback takes a connection, sends
\* the HSET of its buffer (or the HDEL) and waits for the reply, the
\* connection ending in o; the error is logged, never returned.
StoreEvicted(t) ==
    /\ pc[t] = "store"
    /\ \E o \in IOOutcomes :
         LET e == evicting[t] IN
         AfterEviction(t, e.seen,
                       IF e.do = "store"
                       THEN storeShardInExternalStorage(store, heap, e.index, e.shard,
                                                        e.buffer, o)
                       ELSE deleteShardFromExternalStorage(store, heap, e.index, o),
                       o)
    /\ UNCHANGED <<cacheLimit, reliable, others, op, err, res, txn, fetched, lastSet>>

\* The closure of Set or Get returning without the deferred Unlock.
UnlockKeepsMutex(t) ==
    /\ pc[t] = "unlock"
    /\ pc' = [pc EXCEPT ![t] =
                IF err[t] # "ok" THEN "ret"
                ELSE IF Writes(op[t]) THEN "write"
                ELSE IF ref[t] = NilRef THEN "ret"
                ELSE "read"]
    /\ evictLog' = <<>>
    /\ UNCHANGED <<open, store, cache, heap, shardMux, cacheLimit, reliable, others, evicting, op, ref, err,
                   res, txn, fetched, lastSet>>

\* A Set or Get that goes on to the shard whatever error getShard returned.
UnlockIgnoresError(t) ==
    /\ pc[t] = "unlock"
    /\ shardMux' = [shardMux EXCEPT ![ShardIndexOf(op[t].block)] = 0]
    /\ pc' = [pc EXCEPT ![t] = IF Writes(op[t]) THEN "write" ELSE "read"]
    /\ evictLog' = <<>>
    /\ UNCHANGED <<open, store, cache, heap, cacheLimit, reliable, others, evicting, op, ref, err, res,
                   txn, fetched, lastSet>>

\* The deferred lba.shardMux[shardIndex].Unlock(): the closure of Set or Get
\* returns the shard pointer and the error.
Unlock(t) ==
    /\ pc[t] = "unlock"
    /\ shardMux' = [shardMux EXCEPT ![ShardIndexOf(op[t].block)] = 0]
    /\ pc' = [pc EXCEPT ![t] =
                IF err[t] # "ok" THEN "ret"
                ELSE IF Writes(op[t]) THEN "write"
                ELSE IF ref[t] = NilRef THEN "ret"
                ELSE "read"]
    /\ evictLog' = <<>>
    /\ UNCHANGED <<open, store, cache, heap, cacheLimit, reliable, others, evicting, op, ref, err, res,
                   txn, fetched, lastSet>>

\* Set: shard.Set(hashIndex, h)
Write(t) ==
    /\ pc[t] = "write"
    /\ heap' = [heap EXCEPT ![ref[t]] = ShardSet(@, HashIndexOf(op[t].block), op[t].hash)]
    /\ op' = [op EXCEPT ![t].beside = FlushRunning]
    /\ pc' = [pc EXCEPT ![t] = "ret"]
    /\ UNCHANGED <<open, store, cache, shardMux, cacheLimit, reliable, others, evicting, ref, err, res,
                   txn, fetched, evictLog, lastSet>>

\* Get: h = shard.Get(hashIndex)
Read(t) ==
    /\ pc[t] = "read"
    /\ res' = [res EXCEPT ![t] = ShardGet(heap[ref[t]], HashIndexOf(op[t].block))]
    /\ pc' = [pc EXCEPT ![t] = "ret"]
    /\ UNCHANGED <<open, store, cache, heap, shardMux, cacheLimit, reliable, others, evicting, op, ref, err,
                   txn, fetched, evictLog, lastSet>>

\* storeCacheInExternalStorage: a connection is taken and MULTI is sent.
FlushMulti(t) ==
    /\ pc[t] = "multi"
    /\ \E o \in IOOutcomes :
         /\ err' = [err EXCEPT ![t] = ErrorOf(o)]
         /\ pc' = [pc EXCEPT ![t] = IF o = "ok" THEN "serialize" ELSE "ret"]
         /\ open' = [open EXCEPT ![t] =
                        @ + ConnOpened(o) - (IF o = "ok" THEN 0 ELSE ConnClosed(o))]
    /\ txn' = [txn EXCEPT ![t] = NoTxn]
    /\ UNCHANGED <<store, cache, heap, shardMux, cacheLimit, reliable, others, evicting, op, ref, res,
                   fetched, evictLog, lastSet>>

\* A Flush whose emitter sends no command for the entries Serialize hands it.
FlushSerializeSendsNothing(t) ==
    /\ pc[t] = "serialize"
    /\ IF Unseen(cache, txn[t].seen) = {}
       THEN /\ pc' = [pc EXCEPT ![t] = "exec"]
            /\ UNCHANGED txn
       ELSE /\ \E i \in Unseen(cache, txn[t].seen), o \in IOOutcomes \ {"noconn"} :
                 txn' = [txn EXCEPT
                            ![t].seen = @ \cup {cache[i].index},
                            ![t].broken = @ \/ (o # "ok" /\ EntryDirty(heap, cache[i].shard))]
            /\ UNCHANGED pc
    /\ UNCHANGED <<open, store, cache, heap, shardMux, cacheLimit, reliable, others, evicting, op, ref, err,
                   res, fetched, evictLog, lastSet>>

\* storeCacheInExternalStorage: lba.cache.Serialize comes to one more entry
\* of the cache, in no given order, and for a dirty one the emitter sends
\* HSET with the bytes the shard has at that moment, or HDEL; a Send that
\* fails leaves the connection broken.  With no entry left Serialize
\* returns; what it returns is dropped.
FlushSerialize(t) ==
    /\ pc[t] = "serialize"
    /\ IF Unseen(cache, txn[t].seen) = {}
       THEN /\ pc' = [pc EXCEPT ![t] = "exec"]
            /\ UNCHANGED txn
       ELSE /\ \E i \in Unseen(cache, txn[t].seen) :
                 IF EntryDirty(heap, cache[i].shard)
                 THEN \E o \in IOOutcomes \ {"noconn"} :
                        txn' = [txn EXCEPT
                                   ![t].seen = @ \cup {cache[i].index},
                                   ![t].cmds = @ \cup {CacheSerialize(cache, heap, i)},
                                   ![t].broken = @ \/ o # "ok"]
                 ELSE txn' = [txn EXCEPT ![t].seen = @ \cup {cache[i].index}]
            /\ UNCHANGED pc
    /\ UNCHANGED <<open, store, cache, heap, shardMux, cacheLimit, reliable, others, evicting, op, ref, err,
                   res, fetched, evictLog, lastSet>>

\* storeCacheInExternalStorage: conn.Do("EXEC"); when it fails the cache is
\* cleared without eviction.
FlushExec(t) ==
    /\ pc[t] = "exec"
    /\ \E o \in IOOutcomes \ {"noconn"} :
         /\ open' = [open EXCEPT ![t] = @ - ConnClosed(o)]
         /\ IF o = "ok" /\ ~txn[t].broken
            THEN /\ store' = Apply(store, txn[t].cmds)
                 /\ err' = [err EXCEPT ![t] = "ok"]
                 /\ UNCHANGED <<cache, heap, ref, evicting>>
            ELSE /\ err' = [err EXCEPT ![t] = "IOError"]
                 /\ LET n == Collect(<<>>, heap, ref, evicting)
                    IN  /\ cache' = n.cache /\ heap' = n.heap /\ ref' = n.ref
                        /\ evicting' = n.evicting
                 /\ UNCHANGED store
    /\ pc' = [pc EXCEPT ![t] = "ret"]
    /\ txn' = [txn EXCEPT ![t] = NoTxn]
    /\ UNCHANGED <<shardMux, cacheLimit, reliable, others, op, res, fetched, evictLog,
                   lastSet>>

\* storeCacheInExternalStorage: conn.Do("EXEC") returns a nil reply and no
\* error: the server has not run the transaction.  The reply is dropped and
\* err is nil, so the cache is left alone and nil is returned.
FlushExecAborted(t) ==
    /\ pc[t] = "exec"
    /\ ~txn[t].broken
    /\ open' = [open EXCEPT ![t] = @ - ConnClosed("ok")]
    /\ err' = [err EXCEPT ![t] = "ok"]
    /\ pc' = [pc EXCEPT ![t] = "ret"]
    /\ txn' = [txn EXCEPT ![t] = [NoTxn EXCEPT !.aborted = TRUE]]
    /\ UNCHANGED <<store, cache, heap, ref, shardMux, cacheLimit, reliable, others, evicting, op, res,
                   fetched, evictLog, lastSet>>

\* The operation has returned to its caller, who goes on.
Return(t) ==
    /\ pc[t] = "ret"
    /\ pc' = [pc EXCEPT ![t] = "idle"]
    /\ lastSet' = IF Writes(op[t]) /\ err[t] = "ok" /\ reliable
                  THEN [lastSet EXCEPT ![op[t].block] =
                            <<op[t].hash, op[t].beside, HoldsHash(store, op[t].block)>>]
                  ELSE lastSet
    /\ op' = [op EXCEPT ![t] = NoOp]
    /\ LET n == Collect(cache, heap, [ref EXCEPT ![t] = NilRef], evicting)
       IN  cache' = n.cache /\ heap' = n.heap /\ ref' = n.ref
               /\ evicting' = n.evicting
    /\ err' = [err EXCEPT ![t] = "ok"]
    /\ res' = [res EXCEPT ![t] = Nil]
    /\ fetched' = [fetched EXCEPT ![t] = FALSE]
    /\ txn' = [txn EXCEPT ![t].aborted = FALSE]
    /\ UNCHANGED <<open, store, shardMux, cacheLimit, reliable, others, evictLog>>

\* ---------------------------------------------------------- specifications

\* NewLBA on a volume.
InitLBA ==
    /\ OthersIdle
    /\ cache = <<>>
    /\ heap = <<>>
    /\ shardMux = [i \in ShardIndices |-> 0]
    /\ cacheLimit \in CacheLimits
    /\ pc = [t \in Threads |-> "idle"]
    /\ op = [t \in Threads |-> NoOp]
    /\ ref = [t \in Threads |-> NilRef]
    /\ err = [t \in Threads |-> "ok"]
    /\ res = [t \in Threads |-> Nil]
    /\ txn = [t \in Threads |-> NoTxn]
    /\ fetched = [t \in Threads |-> FALSE]
    /\ evictLog = <<>>
    /\ evicting = [t \in Threads |-> NoEviction]
    /\ open = [t \in Threads |-> 0]
    /\ lastSet = [b \in Blocks |-> <<>>]

\* The store holds nothing of the volume.
EmptyStore == [i \in ShardIndices |-> Absent]

Init ==
    /\ InitLBA
    /\ store = EmptyStore
    /\ reliable \in BOOLEAN

Step(t) ==
    \/ Lock(t)
    \/ Lookup(t)
    \/ Fetch(t)
    \/ AddFetched(t)
    \/ AddNew(t)
    \/ EvictShard(t)
    \/ StoreEvicted(t)
    \/ Unlock(t)
    \/ Write(t)
    \/ Read(t)
    \/ FlushMulti(t)
    \/ FlushSerialize(t)
    \/ FlushExec(t)
    \/ Return(t)

\* One caller: every operation is called after the one before it returned.
Next ==
    \/ \E b \in Blocks, h \in Hashes : CallSet(1, b, h)
    \/ \E b \in Blocks : CallDelete(1, b)
    \/ \E b \in Blocks : CallGet(1, b)
    \/ CallFlush(1)
    \/ Step(1)

Spec == Init /\ [][Next]_vars

ConcInit ==
    /\ InitLBA
    /\ store = EmptyStore
    /\ reliable = TRUE

\* Every thread calls one Set, Delete or Get; the calls run side by side.
ConcNext ==
    \E t \in Threads :
        \/ \E b \in Blocks, h \in Hashes : CallSet(t, b, h)
        \/ \E b \in Blocks : CallDelete(t, b)
        \/ \E b \in Blocks : CallGet(t, b)
        \/ Lock(t)
        \/ Lookup(t)
        \/ Fetch(t)
        \/ AddFetched(t)
        \/ AddNew(t)
        \/ EvictShard(t)
        \/ StoreEvicted(t)
        \/ Unlock(t)
        \/ Write(t)
        \/ Read(t)

SpecConc == ConcInit /\ [][ConcNext]_vars

\* A hash that is not the nil hash.
SomeHash == [i \in 1..HashSize |-> 1]

\* The field of shard 0 as an earlier LBA stored it, a hash in its first slot.
StoredShard == Field(ShardWrite(ShardSet(newShard, 0, SomeHash)))

\* A new LBA on a volume whose shard 0 the store holds or does not hold.
GetsInit ==
    /\ InitLBA
    /\ store \in {EmptyStore, [EmptyStore EXCEPT ![0] = StoredShard]}
    /\ reliable = TRUE

\* Every thread calls one Get of a block of shard 0; the calls run side by side.
\* Shard 0 is the only shard added to the cache, so cache.Add evicts nothing.
GetsNext ==
    \E t \in Threads :
        \/ \E b \in {b \in Blocks : ShardIndexOf(b) = 0} : CallGet(t, b)
        \/ Lock(t)
        \/ Lookup(t)
        \/ Fetch(t)
        \/ AddFetched(t)
        \/ Unlock(t)
        \/ Read(t)

SpecGets == GetsInit /\ [][GetsNext]_vars

\* Thread 1 calls Set and Get one after the other, on the first block of each
\* shard; thread 2 calls Flush at any moment.
PairBlocks == {b \in Blocks : HashIndexOf(b) = 0}

PairInit ==
    /\ InitLBA
    /\ store = EmptyStore
    /\ reliable = TRUE

PairNext ==
    \/ \E b \in PairBlocks, h \in Hashes : CallSet(1, b, h)
    \/ \E b \in PairBlocks : CallGet(1, b)
    \/ CallFlush(2)
    \/ \E t \in {1, 2} : Step(t)

SpecPair == PairInit /\ [][PairNext]_vars

\* The caller whose Set(blockIndex, h) has returned without error calls the
\* same Set again, with nothing in between.
SetAgain(t) ==
    /\ pc[t] = "ret"
    /\ op[t].kind = "Set"
    /\ err[t] = "ok"
    /\ ~op[t].again
    /\ pc' = [pc EXCEPT ![t] = "lock"]
    /\ op' = [op EXCEPT ![t].again = TRUE, ![t].beside = FALSE]
    /\ lastSet' = IF reliable
                  THEN [lastSet EXCEPT ![op[t].block] =
                            <<op[t].hash, op[t].beside, HoldsHash(store, op[t].block)>>]
                  ELSE lastSet
    /\ LET n == Collect(cache, heap, [ref EXCEPT ![t] = NilRef], evicting)
       IN  cache' = n.cache /\ heap' = n.heap /\ ref' = n.ref
               /\ evicting' = n.evicting
    /\ res' = [res EXCEPT ![t] = Nil]
    /\ fetched' = [fetched EXCEPT ![t] = FALSE]
    /\ UNCHANGED <<open, store, shardMux, cacheLimit, reliable, others, err, txn, evictLog>>

\* One caller who may repeat a Set.
TwiceNext ==
    \/ Next
    \/ SetAgain(1)

SpecTwice == Init /\ [][TwiceNext]_vars

\* One caller on a provider that never fails but whose EXEC may reply nil.
AbortInit ==
    /\ InitLBA
    /\ store = EmptyStore
    /\ reliable = TRUE

AbortNext ==
    \/ Next
    \/ FlushExecAborted(1)

SpecAbort == AbortInit /\ [][AbortNext]_vars

\* Fields whose length is not that of a shard: no byte, a byte short, a byte
\* long.
CorruptFields ==
    { Field(<<>>),
      Field(SubSeq(StoredShard.bytes, 1, BytesPerShard - 1)),
      Field(StoredShard.bytes \o <<0>>) }

\* One caller on a volume whose field of shard 0 has the wrong length, and
\* whose shard 1 the store holds or does not hold.
CorruptInit ==
    /\ InitLBA
    /\ store \in {[i \in ShardIndices |->
                       IF i = 0 THEN c ELSE IF i = 1 THEN f ELSE Absent] :
                   c \in CorruptFields, f \in {Absent, StoredShard}}
    /\ reliable = TRUE

\* One caller, as in Next.  Shard 0 cannot be fetched, so shard 1 is the only
\* shard added to the cache and cache.Add evicts nothing.
CorruptNext ==
    \/ \E b \in Blocks, h \in Hashes : CallSet(1, b, h)
    \/ \E b \in Blocks : CallDelete(1, b)
    \/ \E b \in Blocks : CallGet(1, b)
    \/ CallFlush(1)
    \/ Lock(1)
    \/ Lookup(1)
    \/ Fetch(1)
    \/ AddFetched(1)
    \/ AddNew(1)
    \/ Unlock(1)
    \/ Write(1)
    \/ Read(1)
    \/ FlushMulti(1)
    \/ FlushSerialize(1)
    \/ FlushExec(1)
    \/ Return(1)

SpecCorrupt == CorruptInit /\ [][CorruptNext]_vars

\* The LBA is not in use.
LBAIdle ==
    /\ cache = <<>>
    /\ heap = <<>>
    /\ shardMux = [i \in ShardIndices |-> 0]
    /\ cacheLimit = 0
    /\ pc = [t \in Threads |-> "idle"]
    /\ op = [t \in Threads |-> NoOp]
    /\ ref = [t \in Threads |-> NilRef]
    /\ err = [t \in Threads |-> "ok"]
    /\ res = [t \in Threads |-> Nil]
    /\ txn = [t \in Threads |-> NoTxn]
    /\ fetched = [t \in Threads |-> FALSE]
    /\ evictLog = <<>>
    /\ evicting = [t \in Threads |-> NoEviction]
    /\ open = [t \in Threads |-> 0]
    /\ lastSet = [b \in Blocks |-> <<>>]
    /\ store = EmptyStore
    /\ reliable = TRUE

\* ListVdisks(cluster) is called on a cluster whose ServerIterator gives
\* NumServers servers.
ListInit ==
    /\ LBAIdle
    /\ DedupIdle
    /\ GenIdle
    /\ CopyIdle
    /\ servers \in [Servers -> DoResults]
    /\ reply = NoReply
    /\ gpc = [g \in Servers |-> "none"]
    /\ result = [g \in Servers |-> NoResult]
    /\ mpc = "range"
    /\ serverCount = 0
    /\ received = 0
    /\ ids = <<>>
    /\ listed = NotListed

ListNext ==
    \/ StartGoroutine
    \/ EndRange
    \/ ReturnIds
    \/ \E g \in Servers :
        \/ ServerDo(g)
        \/ CheckReply(g)
        \/ AssertReply(g)
        \/ SendResult(g)
        \/ ContextDone(g)

SpecList == ListInit /\ [][ListNext]_vars

\* GenerateFromStorage has read the indices and started its goroutines: the
\* producer, NumProcess fetch workers, the feeder of the flusher and the
\* goroutine that waits for them; it is at its select.
GenInit ==
    /\ LBAIdle
    /\ DedupIdle
    /\ ListIdle
    /\ CopyIdle
    /\ indices \in IndexLists
    /\ faults \in {"none", "GetBlock", "AddTransaction"}
    /\ produced = 0
    /\ prodPc = "range"
    /\ indicesCh = <<>>
    /\ closed = FALSE
    /\ workPc = [w \in Workers |-> "range"]
    /\ workIdx = [w \in Workers |-> 0]
    /\ idxContentCh = <<>>
    /\ feedPc = "range"
    /\ feedIc = NoIdxContent
    /\ seq = 0
    /\ transactions = <<>>
    /\ waitPc = "wait"
    /\ ctxDone = FALSE
    /\ genPc = "select"
    /\ generated = NotGenerated

GenNext ==
    \/ ProduceIndex
    \/ ProducerCancelled
    \/ CloseIndices
    \/ ReceiveContent
    \/ FeederSelect
    \/ AddTransaction
    \/ FeederSendsError
    \/ WaitReturns
    \/ SendDone
    \/ FlushAndReturn
    \/ \E w \in Workers :
        \/ ReceiveIndex(w)
        \/ WorkerSelect(w)
        \/ WorkerDone(w)
        \/ GetBlock(w)
        \/ SendContent(w)
        \/ WorkerSendsError(w)

\* Every goroutine that can take a step takes one in the end.
SpecGen == GenInit /\ [][GenNext]_vars /\ WF_genVars(GenNext)

\* The first FairThreads threads each call one Set, Delete, Get or Flush, on an
\* LBA whose cache holds one shard and on a volume whose shard 0 the store
\* holds or does not hold; the calls run side by side.
FairSet == 1..FairThreads

FairInit == GetsInit /\ cacheLimit < BytesPerShard

FairNext ==
    \E t \in FairSet :
        \/ \E b \in PairBlocks : CallSet(t, b, SomeHash)
        \/ \E b \in PairBlocks : CallDelete(t, b)
        \/ \E b \in PairBlocks : CallGet(t, b)
        \/ CallFlush(t)
        \/ Lock(t)
        \/ Lookup(t)
        \/ Fetch(t)
        \/ AddFetched(t)
        \/ AddNew(t)
        \/ EvictShard(t)
        \/ StoreEvicted(t)
        \/ Unlock(t)
        \/ Write(t)
        \/ Read(t)
        \/ FlushMulti(t)
        \/ FlushSerialize(t)
        \/ FlushExec(t)

Positions == {"idle", "lock", "lookup", "fetch", "add", "new", "evict", "store", "unlock", "write",
              "read", "multi", "serialize", "exec", "ret"}

\* Thread t, inside an operation and not waiting for a mutex another thread
\* holds, takes its next step: the steps of FairNext that are not calls.
Moves(t) ==
    /\ pc[t] \notin {"idle", "ret"}
    /\ pc[t] = "lock" => shardMux[ShardIndexOf(op[t].block)] = 0
    /\ \E p \in Positions \ {pc[t]} : pc' = [pc EXCEPT ![t] = p]

\* The scheduler runs every thread that can take a step; the commands sent to
\* the store always return.
SpecFair ==
    /\ FairInit /\ [][FairNext]_vars
    /\ \A t \in FairSet : WF_pc(Moves(t)) /\ WF_txn(FlushSerialize(t))

\* copyDifferentConnections is called with two open connections, on a source
\* volume of at most MaxFields fields and a target volume that is absent or
\* holds an older field.
CopyInit ==
    /\ LBAIdle
    /\ DedupIdle
    /\ ListIdle
    /\ GenIdle
    /\ srcVolume \in Volumes
    /\ dstVolume \in OldVolumes
    /\ untouched = dstVolume
    /\ unreliable \in BOOLEAN
    /\ data = EmptyVolume
    /\ remaining = {}
    /\ buffered = <<>>
    /\ brokenB = FALSE
    /\ delivered = <<>>
    /\ watched = "no"
    /\ openA = TRUE
    /\ openB = TRUE
    /\ copyPc = "hgetall"
    /\ copied = NotCopied
    /\ otherAt = "none"

CopyNext ==
    \/ HGetAll
    \/ SendWatch
    \/ SendMulti
    \/ SendDel
    \/ SendHSet
    \/ DoExec
    \/ ServerExec
    \/ OtherWrite

SpecCopy == CopyInit /\ [][CopyNext]_vars

\* dedupInt64s or dedupStrings is called with a sorted slice.
DedupInit ==
    /\ LBAIdle
    /\ ListIdle
    /\ GenIdle
    /\ CopyIdle
    /\ elems \in {"int64", "string"}
    /\ slice \in IF elems = "int64" THEN SortedSlices("int64", Int64Values)
                ELSE SortedSlices("string", StringValues)
    /\ input = slice
    /\ deduped = <<>>
    /\ dedupPc = "call"

DedupNext == CallDedupInt64s \/ CallDedupStrings

SpecDedup == DedupInit /\ [][DedupNext]_vars

\* ------------------------------------------------------------------ claims

\* What Get(blockIndex) returns from an LBA no operation is running on, when
\* the store answers: the hash of the cached shard, else of the stored one, else
\* nil.
GetValue(c, h, st, blockIndex) ==
    LET index == ShardIndexOf(blockIndex)
        p     == CachePos(c, index)
    IN  IF p > 0 /\ c[p].shard # NilRef
        THEN ShardGet(h[c[p].shard], HashIndexOf(blockIndex))
        ELSE IF ~st[index].present \/ ~ShardBytesOk(st[index].bytes) THEN Nil
        ELSE ShardGet(shardFromBytes(st[index].bytes), HashIndexOf(blockIndex))

\* Get(b) of this LBA, and of an LBA newly made on the same volume.
OrigGet(b) == GetValue(cache, heap, store, b)

FreshGet(b) == GetValue(<<>>, <<>>, store, b)

BlocksOf(index) == {b \in Blocks : ShardIndexOf(b) = index}

Returned(t, kind) == pc[t] = "ret" /\ op[t].kind = kind

\* C1: read-your-write.  With one caller and a store that never fails, a Get
\* of a block whose last Set returned with hash h returns h without error,
\* whatever was evicted and fetched again in between.
C1_ReadYourWrite ==
    \A t \in Threads :
        ( /\ reliable
          /\ Returned(t, "Get")
          /\ lastSet[op[t].block] # <<>>
          /\ lastSet[op[t].block][1] \in Hashes )
        => err[t] = "ok" /\ res[t] = lastSet[op[t].block][1]

\* A Get that had to fetch the shard from the store returned the hash set
\* before the shard was evicted.
C1_Witness ==
    \E t \in Threads :
        /\ reliable
        /\ Returned(t, "Get")
        /\ fetched[t]
        /\ lastSet[op[t].block] # <<>>
        /\ lastSet[op[t].block][1] = SomeHash
        /\ res[t] = SomeHash

\* C2: flush atomicity.  When a Flush has returned without error, an LBA newly
\* opened on the volume gets for every block (so for every block Set or Deleted
\* since the Flush before) the hash this LBA gets, the nil hash and the all-zero
\* hash being one hash.
C2_FlushAtomicity ==
    \A t \in Threads :
        (Returned(t, "Flush") /\ err[t] = "ok")
        => \A b \in Blocks : HashEquals(FreshGet(b), OrigGet(b))

\* A Flush returned without error with a dirty shard in the cache, and the new
\* LBA reads the hash that was set in it.
C2_Witness ==
    \E t \in Threads :
        /\ Returned(t, "Flush") /\ err[t] = "ok"
        /\ \E b \in Blocks :
            /\ CachePos(cache, ShardIndexOf(b)) > 0
            /\ heap[cache[CachePos(cache, ShardIndexOf(b))].shard].dirty
            /\ OrigGet(b) = SomeHash
            /\ FreshGet(b) = SomeHash

\* C3: durability on eviction.  When cache.Add has evicted a dirty shard and its
\* HSET succeeded, the store holds the bytes of that shard under its index and a
\* new LBA on the volume gets its hashes; and of a shard no field of the store
\* holds, a new LBA gets nothing but the nil hash.
C3_DurableEviction ==
    /\ \A i \in 1..Len(evictLog) :
        LET e == evictLog[i] IN
        (e.live /\ e.shard.dirty /\ e.err = "ok")
        => /\ store[e.index] = Field(ShardWrite(e.shard))
           /\ \A b \in BlocksOf(e.index) :
                HashEquals(FreshGet(b), ShardGet(e.shard, HashIndexOf(b)))
    /\ \A i \in 1..Len(cache) :
        ~store[cache[i].index].present
        => \A b \in BlocksOf(cache[i].index) : FreshGet(b) = Nil

\* A dirty shard holding a hash was evicted and stored, while the shard that
\* took its place is in the cache only.
C3_Witness ==
    /\ Len(evictLog) = 1
    /\ evictLog[1].live /\ evictLog[1].shard.dirty /\ evictLog[1].err = "ok"
    /\ \E b \in BlocksOf(evictLog[1].index) : FreshGet(b) = SomeHash
    /\ \E i \in 1..Len(cache) : ~store[cache[i].index].present

\* C4: a Flush that returns an error leaves every cache entry in place and
\* every dirty shard dirty.
C4_FailedFlushKeepsCache ==
    [][\A t \in Threads :
        (pc[t] = "exec" /\ pc'[t] = "ret" /\ err'[t] # "ok")
        => cache' = cache /\ heap' = heap]_vars

\* C5: after a Flush whose EXEC succeeded the cache holds no entry.
C5_FlushedCacheIsEmpty ==
    \A t \in Threads :
        (Returned(t, "Flush") /\ err[t] = "ok") => cache = <<>>

\* C6: no lost update.  When every thread has called Set, on blocks no two of
\* which are the same, and all have returned without error, Get of each block
\* returns the hash set for it.
C6_NoLostUpdate ==
    ( /\ \A t \in Threads : Returned(t, "Set") /\ err[t] = "ok"
      /\ \A t, u \in Threads : t # u => op[t].block # op[u].block )
    => \A t \in Threads : HashEquals(OrigGet(op[t].block), op[t].hash)

\* A thread is past getShard and has not yet returned: it holds a pointer to
\* the shard of its block.
HoldsShard(t) == pc[t] \in {"add", "unlock", "write", "read"} /\ ref[t] # NilRef

\* C7: one shard object per shard index.  The shard a thread holds for a shard
\* index is the shard the cache holds for that index, if it holds one, and the
\* shard every other thread holds for it.
C7_OneShardObject ==
    \A t \in Threads :
        HoldsShard(t) =>
            LET index == ShardIndexOf(op[t].block)
                p     == CachePos(cache, index)
            IN  /\ p > 0 => cache[p].shard = ref[t]
                /\ \A u \in Threads :
                     (HoldsShard(u) /\ ShardIndexOf(op[u].block) = index)
                     => ref[u] = ref[t]

\* C8: lock discipline.  A thread that is to look the cache up, to fetch, to add
\* to the cache, or to read or write the records of a shard holds the mutex of
\* the shard index.
C8_LockDiscipline ==
    \A t \in Threads :
        pc[t] \in {"lookup", "fetch", "add", "new", "unlock", "write", "read"}
        => shardMux[ShardIndexOf(op[t].block)] = t

\* The store yields h for block b; a dirty shard of the cache holds h for b.
InStore(b, h) == HashEquals(FreshGet(b), h)

InDirtyCache(b, h) ==
    LET p == CachePos(cache, ShardIndexOf(b)) IN
    /\ p > 0
    /\ cache[p].shard # NilRef
    /\ heap[cache[p].shard].dirty
    /\ HashEquals(ShardGet(heap[cache[p].shard], HashIndexOf(b)), h)

Quiet == \A t \in Threads : pc[t] \in {"idle", "ret"}

\* C9: a Set beside a Flush is not lost.  Once every operation has returned,
\* the hash of a Set (or Delete) whose shard.Set ran while a Flush was running,
\* and that no later Set or Delete of the block followed, is in the store or
\* in a dirty shard of the cache.
C9_SetBesideFlushIsKept ==
    Quiet =>
        /\ \A t \in Threads :
             (pc[t] = "ret" /\ Writes(op[t]) /\ op[t].beside /\ err[t] = "ok")
             => InStore(op[t].block, op[t].hash) \/ InDirtyCache(op[t].block, op[t].hash)
        /\ \A b \in Blocks :
             ( /\ lastSet[b] # <<>>
               /\ lastSet[b][2]
               /\ \A t \in Threads : ~(Writes(op[t]) /\ op[t].block = b) )
             => InStore(b, lastSet[b][1]) \/ InDirtyCache(b, lastSet[b][1])

AllGot == \A t \in Threads : Returned(t, "Get") /\ err[t] = "ok"

Fetching == {t \in Threads : fetched[t]}

\* C10 as stated: the Gets of the threads, all of blocks of one shard that was
\* not in the cache, have sent exactly one HGET together, whether the store
\* holds the shard or not.
C10_ExactlyOneFetch == AllGot => Cardinality(Fetching) = 1

\* C10 as amended: exactly one HGET when the store holds the shard; when it
\* holds none, nothing is cached and every Get sends its own HGET.
C10_OneFetchOfStoredShard ==
    AllGot =>
        IF store[0].present THEN Cardinality(Fetching) = 1
        ELSE Cardinality(Fetching) = NumThreads

\* All Gets have returned the stored hash and one of them found the shard in
\* the cache.
C10_Witness ==
    /\ AllGot
    /\ store[0].present
    /\ \E t \in Threads : ~fetched[t] /\ op[t].block = 0 /\ res[t] = SomeHash
    /\ \E t \in Threads : fetched[t]

\* Thread t has missed the cache and its fetch, or the insertion into the cache
\* that follows it, is still to be done.
InFetch(t) == pc[t] \in {"fetch", "add", "new"}

\* C11: one fetch in flight per shard index.  No two threads are between their
\* cache miss and their cache insertion for the same shard index.
C11_OneFetchInFlight ==
    \A t, u \in Threads :
        (t # u /\ InFetch(t) /\ InFetch(u))
        => ShardIndexOf(op[t].block) # ShardIndexOf(op[u].block)

\* A thread has fetched a shard and not yet inserted it, while another thread
\* waits for the mutex of the same shard index.
C11_Witness ==
    \E t, u \in Threads :
        /\ t # u
        /\ pc[t] = "add" /\ fetched[t]
        /\ pc[u] = "lock"
        /\ ShardIndexOf(op[u].block) = ShardIndexOf(op[t].block)

MutexesOf(t) == {i \in ShardIndices : shardMux[i] = t}

\* C12: no thread holds two shard mutexes, and with a store whose commands
\* return and a fair scheduler every operation that was called returns.
C12_NoDeadlock ==
    /\ [](\A t \in Threads : Cardinality(MutexesOf(t)) <= 1)
    /\ \A t \in FairSet : (pc[t] # "idle") ~> (pc[t] = "ret")

\* A thread whose cache.Add has just evicted a shard holds the mutex of its own
\* shard index and no other, while another thread holds the mutex of the
\* evicted shard's index.
C12_Witness ==
    \E t, u \in Threads :
        /\ t # u
        /\ pc[t] = "unlock" /\ evictLog # <<>>
        /\ MutexesOf(t) = {ShardIndexOf(op[t].block)}
        /\ evictLog[1].index # ShardIndexOf(op[t].block)
        /\ MutexesOf(u) = {evictLog[1].index}

\* C13: the dirty bit follows the eviction write.  When cache.Add has evicted a
\* dirty shard, the shard's dirty bit is cleared if its HSET succeeded and is
\* still set if the write failed.
C13_DirtyBitFollowsWrite ==
    \A i \in 1..Len(evictLog) :
        LET e == evictLog[i] IN
        (e.live /\ e.shard.dirty) => (e.after <=> e.err # "ok")

\* A Get of a block no Set or Delete of this LBA has written has returned, the
\* store never failing (the store held nothing of the volume at the start).
GotNeverWritten(t) ==
    reliable /\ Returned(t, "Get") /\ lastSet[op[t].block] = <<>>

\* C14 as stated: a Get of a block that was never written returns NilHash, the
\* all-zero hash, without error.
C14_NeverWrittenIsNilHash ==
    \A t \in Threads : GotNeverWritten(t) => err[t] = "ok" /\ res[t] = NilHash

\* C14 as amended: a Get of a block that was never written returns without
\* error the nil Hash when its shard is neither in the cache nor in the store,
\* and NilHash when the shard exists.
C14_NeverWrittenIsNil ==
    \A t \in Threads :
        GotNeverWritten(t) =>
            /\ err[t] = "ok"
            /\ IsNil(res[t])
            /\ res[t] = IF ref[t] = NilRef THEN Nil ELSE NilHash

\* A Get of block 1, never written, has returned NilHash from the shard that
\* exists because block 0 was set.
C14_Witness ==
    \E t \in Threads :
        /\ GotNeverWritten(t)
        /\ op[t].block = 1
        /\ lastSet[0] # <<>>
        /\ lastSet[0][1] = SomeHash
        /\ ref[t] # NilRef
        /\ res[t] = NilHash

\* The last Set or Delete of block b that returned was a Delete.
Deleted(b) == lastSet[b] # <<>> /\ lastSet[b][1] = Nil

\* C15: Delete.  With a store that never fails: a Get of a block whose last
\* write was a Delete returns NilHash; when Delete has returned the shard of its
\* block is cached and dirty; and when a Flush has returned without error a new
\* LBA on the volume gets NilHash for every deleted block.
C15_DeleteSetsNilHash ==
    \A t \in Threads :
        /\ (reliable /\ Returned(t, "Get") /\ Deleted(op[t].block))
           => err[t] = "ok" /\ res[t] = NilHash
        /\ (reliable /\ Returned(t, "Delete"))
           => /\ err[t] = "ok"
              /\ OrigGet(op[t].block) = NilHash
              /\ InDirtyCache(op[t].block, NilHash)
        /\ (reliable /\ Returned(t, "Flush") /\ err[t] = "ok")
           => \A b \in Blocks : Deleted(b) => FreshGet(b) = NilHash

\* A Flush has returned after the Delete of a block for which the store held a
\* hash when the Delete returned; the new LBA gets NilHash for it.
C15_Witness ==
    \E t \in Threads, b \in Blocks :
        /\ reliable /\ Returned(t, "Flush") /\ err[t] = "ok"
        /\ Deleted(b)
        /\ lastSet[b][3]
        /\ FreshGet(b) = NilHash

\* C16: cache capacity.  The cache holds at most max(1, floor(limit / (R * H)))
\* entries, that is entries * R * H <= max(limit, R * H), and at most one entry
\* per shard index.
C16_CacheCapacity ==
    /\ Len(cache) <= (IF cacheLimit \div BytesPerShard > 1
                      THEN cacheLimit \div BytesPerShard ELSE 1)
    /\ Len(cache) * BytesPerShard
         <= (IF cacheLimit > BytesPerShard THEN cacheLimit ELSE BytesPerShard)
    /\ \A i, j \in 1..Len(cache) : cache[i].index = cache[j].index => i = j

\* An LBA whose limit is below one shard holds one shard, after the insertion
\* of a second one evicted the first.
C16_Witness ==
    /\ cacheLimit < BytesPerShard
    /\ Len(cache) = 1
    /\ evictLog # <<>>
    /\ \E t \in Threads : pc[t] = "unlock"

\* C17: connections are scoped.  A thread that is in no operation, or whose
\* operation has returned, has no connection open; a thread inside Set, Get or
\* Delete has none open between its steps, and a Flush holds one from MULTI to
\* EXEC.
C17_ConnectionsClosed ==
    \A t \in Threads :
        /\ pc[t] \in {"idle", "ret"} => open[t] = 0
        /\ open[t] = (IF pc[t] \in {"serialize", "exec"} THEN 1 ELSE 0)

\* A Flush has returned an error after it had taken a connection, and has no
\* connection open.
C17_Witness ==
    \E t \in Threads :
        /\ Returned(t, "Flush")
        /\ err[t] = "IOError"
        /\ open[t] = 0

\* C18: Flush surfaces the first error and halts.  A Flush that could not take
\* a connection, could not send MULTI, or had an HSET or HDEL of Serialize fail,
\* returns an error without having issued EXEC and leaves the cache and the
\* cached shards as they were.
C18_FlushHaltsOnFirstError ==
    [][\A t \in Threads :
        ( /\ op[t].kind = "Flush"
          /\ pc[t] # "ret" /\ pc'[t] = "ret"
          /\ pc[t] = "multi" \/ txn[t].broken )
        => /\ pc[t] # "exec"
           /\ err'[t] # "ok"
           /\ cache' = cache
           /\ heap' = heap]_vars

\* C19: Flush reports an aborted transaction.  A Flush whose EXEC replied nil
\* without an error returns TxAborted, and the cache with its dirty shards is
\* as it was before the EXEC.
C19_AbortedFlushReported ==
    \A t \in Threads :
        (Returned(t, "Flush") /\ txn[t].aborted) => err[t] = "TxAborted"

\* A Set, Get or Delete of thread t whose fetch of the shard has failed.
FetchFailed(t) ==
    /\ op[t].kind \in {"Set", "Get", "Delete"}
    /\ err[t] \in {"Unavailable", "IOError"}

\* C20: Set, Get and Delete surface I/O errors.  When the shard is not cached
\* and its fetch fails (no connection, or HGET fails), the operation does
\* nothing more than unlock and return that error: the steps up to the fetch,
\* the step that fails and every later step of the operation leave the cache,
\* the cached shards with their slots and dirty bits, and the store as they
\* were.
C20_FetchErrorSurfaces ==
    /\ [](\A t \in Threads : FetchFailed(t) => pc[t] \in {"unlock", "ret"})
    /\ [][\A t \in Threads :
            (pc[t] \in {"lock", "lookup"} /\ pc'[t] \in {"lookup", "fetch"})
            => cache' = cache /\ heap' = heap /\ store' = store]_vars
    /\ [][\A t \in Threads :
            (op'[t].kind \in {"Set", "Get", "Delete"}
                /\ err'[t] \in {"Unavailable", "IOError"})
            => /\ op'[t] = op[t]
               /\ err[t] \in {"ok", err'[t]}
               /\ cache' = cache
               /\ heap' = heap
               /\ store' = store]_vars

\* A Set has returned an error because the shard of its block, which the store
\* holds, could not be fetched, while a dirty shard is in the cache.
C20_Witness ==
    \E t \in Threads :
        /\ Returned(t, "Set")
        /\ FetchFailed(t)
        /\ store[ShardIndexOf(op[t].block)].present
        /\ CachePos(cache, ShardIndexOf(op[t].block)) = 0
        /\ \E p \in 1..Len(cache) :
            cache[p].shard # NilRef /\ heap[cache[p].shard].dirty

\* C21: corrupt shard.  While the store holds for shard 0 a field of the wrong
\* length, every Get, Set and Delete of a block of shard 0 returns
\* CorruptShard, the cache never holds an entry for shard 0, and no step
\* changes the field.
C21_CorruptShard ==
    /\ [](\A t \in Threads :
            (pc[t] = "ret" /\ op[t].kind \in {"Set", "Get", "Delete"}
                /\ ShardIndexOf(op[t].block) = 0)
            => err[t] = "CorruptShard" /\ res[t] = Nil)
    /\ [](CachePos(cache, 0) = 0)
    /\ [](store[0] \in CorruptFields)
    /\ [][store'[0] = store[0]]_vars

\* A Get of a block of the corrupt shard has fetched the field and returned
\* CorruptShard, with another shard in the cache.
C21_Witness ==
    \E t \in Threads :
        /\ pc[t] = "ret"
        /\ op[t].kind = "Get"
        /\ ShardIndexOf(op[t].block) = 0
        /\ err[t] = "CorruptShard"
        /\ fetched[t]
        /\ cache # <<>>

\* The cache.Add of thread t has just evicted an entry whose HSET or HDEL
\* failed.
EvictionFailed(t) ==
    /\ pc[t] = "unlock"
    /\ fetched[t]
    /\ evictLog # <<>>
    /\ evictLog[1].err # "ok"

\* C22: eviction errors are swallowed.  When the cache.Add of a Set, Get or
\* Delete evicts an entry and the write or delete of that entry fails, the
\* operation has no error and holds its shard, which is in the cache, the
\* evicted entry is not; and an operation that is past getShard without error
\* returns without error, a Get with the hash of its slot.
C22_EvictionErrorSwallowed ==
    /\ [](\A t \in Threads :
            EvictionFailed(t)
            => /\ err[t] = "ok"
               /\ ref[t] # NilRef
               /\ CachePos(cache, evictLog[1].index) = 0
               /\ CachePos(cache, ShardIndexOf(op[t].block)) > 0
               /\ cache[CachePos(cache, ShardIndexOf(op[t].block))].shard = ref[t])
    /\ [][\A t \in Threads :
            (pc[t] \in {"unlock", "write", "read"} /\ err[t] = "ok" /\ pc'[t] # pc[t])
            => /\ err'[t] = "ok"
               /\ pc[t] = "unlock" => pc'[t] \in {"write", "read", "ret"}
               /\ pc[t] \in {"write", "read"} => pc'[t] = "ret"
               /\ pc[t] = "read" =>
                    res'[t] = ShardGet(heap[ref[t]], HashIndexOf(op[t].block))]_vars

\* The cache.Add of a Get has evicted a dirty shard whose HSET failed.
C22_Witness ==
    \E t \in Threads :
        /\ EvictionFailed(t)
        /\ op[t].kind = "Get"
        /\ evictLog[1].live
        /\ evictLog[1].shard.dirty

\* C23: evicting a live shard that is not dirty does nothing to the store: the
\* callback takes no connection, sends no command and has no error, and the
\* field of the evicted index is as it was.
C23_CleanEvictionIsNoOp ==
    \A i \in 1..Len(evictLog) :
        LET e == evictLog[i] IN
        (e.live /\ ~e.shard.dirty)
        => /\ e.conns = 0
           /\ e.sent = <<>>
           /\ e.err = "ok"
           /\ e.now = e.was

\* A clean shard, fetched from the store, has been evicted while the provider
\* could fail; the store holds its field.
C23_Witness ==
    /\ ~reliable
    /\ evictLog # <<>>
    /\ evictLog[1].live
    /\ ~evictLog[1].shard.dirty
    /\ evictLog[1].was.present
    /\ CachePos(cache, evictLog[1].index) = 0

\* Every shard the cache holds, and every shard an eviction is handed, is a
\* live shard: cache.Add is called with newShard() and with a fetched shard
\* that is not nil, so onCacheEviction is never called with a nil shard, sends
\* no HDEL and does not panic.
NoNilShardCached ==
    /\ \A i \in 1..Len(cache) : cache[i].shard # NilRef
    /\ \A t \in Threads : evicting[t].pending => evicting[t].shard # NilRef
    /\ \A i \in 1..Len(evictLog) : evictLog[i].live /\ evictLog[i].err # "panic"
    /\ \A t \in Threads : pc[t] # "panicked"

\* The commands of txn[t] for the cache entry at position i.
CmdsFor(t, i) == {c \in txn[t].cmds : c.index = cache[i].index}

\* C25: the order of a Flush.  Commands are held by the transaction only
\* between MULTI and EXEC, on the one connection of the Flush; when EXEC is
\* issued the transaction holds exactly one command per dirty cache entry, an
\* HSET with the bytes of a live shard or an HDEL for a nil shard, and no
\* command for another index.
C25_FlushOrder ==
    \A t \in Threads :
        /\ pc[t] \notin {"serialize", "exec"} => txn[t].cmds = {}
        /\ pc[t] = "serialize" => \A c \in txn[t].cmds : c.index \in txn[t].seen
        /\ pc[t] \in {"serialize", "exec"} => open[t] = 1
        /\ pc[t] = "exec" =>
            /\ \A i \in 1..Len(cache) :
                IF EntryDirty(heap, cache[i].shard)
                THEN /\ Cardinality(CmdsFor(t, i)) = 1
                     /\ \A c \in CmdsFor(t, i) :
                            IF cache[i].shard = NilRef
                            THEN c.del
                            ELSE ~c.del /\ c.bytes = ShardWrite(heap[cache[i].shard])
                ELSE CmdsFor(t, i) = {}
            /\ \A c \in txn[t].cmds : CachePos(cache, c.index) > 0

\* A Flush is about to issue EXEC after the HSET of a dirty shard, with a clean
\* shard in the cache that it has sent nothing for.
C25_Witness ==
    \E t \in Threads :
        /\ pc[t] = "exec"
        /\ ~txn[t].broken
        /\ \E c \in txn[t].cmds : ~c.del
        /\ \E i \in 1..Len(cache) :
                /\ ~EntryDirty(heap, cache[i].shard)
                /\ CmdsFor(t, i) = {}

\* Block counts up to the first one that needs three shards.
BlockCounts == 1..(2 * R + 1)

\* muxCount is the ceiling of blockCount / R, and every block below blockCount
\* has its shard index below muxCount and its hash index below R.
LayoutOk ==
    \A n \in BlockCounts :
        /\ MuxCountOf(n) * R >= n
        /\ (MuxCountOf(n) - 1) * R < n
        /\ \A b \in 0..(n - 1) :
            /\ ShardIndexOf(b) \in 0..(MuxCountOf(n) - 1)
            /\ HashIndexOf(b) \in 0..(R - 1)
            /\ ShardIndexOf(b) * R + HashIndexOf(b) = b

\* C26: NewLBA makes ceil(blockCount / R) mutexes and the array keeps that
\* length; the shard index of every block below blockCount is an index of the
\* array, also of the block an operation is working on, and the hash index is
\* below R.
C26_MutexPerShard ==
    /\ LayoutOk
    /\ DOMAIN shardMux = 0..(MuxCountOf(BlockCount) - 1)
    /\ \A b \in 0..(BlockCount - 1) : ShardIndexOf(b) \in DOMAIN shardMux
    /\ \A t \in Threads :
        op[t].kind \in {"Set", "Get", "Delete"}
        => /\ op[t].block \in 0..(BlockCount - 1)
           /\ ShardIndexOf(op[t].block) \in DOMAIN shardMux
           /\ HashIndexOf(op[t].block) \in 0..(R - 1)

\* A Set holds the mutex of the last shard, which has fewer than R blocks.
C26_Witness ==
    \E t \in Threads :
        /\ op[t].kind = "Set"
        /\ ShardIndexOf(op[t].block) = muxCount - 1
        /\ shardMux[muxCount - 1] = t
        /\ BlockCount % R > 0

\* C27: idempotence of Set.  A Set(b, h) called again right after it returned
\* without error finds its shard in the cache, takes no connection and returns
\* without error, and no step of it changes the cache, a cached shard (slots
\* and dirty bit) or the store: the LBA after the second Set is the LBA after
\* the first.
C27_SetIdempotent ==
    /\ [](\A t \in Threads :
            op[t].again
            => /\ err[t] = "ok"
               /\ pc[t] \in {"lock", "lookup", "unlock", "write", "ret"}
               /\ ~fetched[t]
               /\ open[t] = 0)
    /\ [][\A t \in Threads :
            (op[t].again \/ op'[t].again)
            => cache' = cache /\ heap' = heap /\ store' = store]_vars

\* The second of two Sets of a hash has returned; the first one had fetched
\* the shard from the store, and the cache holds two shards.
C27_Witness ==
    \E t \in Threads :
        /\ op[t].again
        /\ pc[t] = "ret"
        /\ op[t].hash = SomeHash
        /\ store[ShardIndexOf(op[t].block)].present
        /\ Len(cache) = 2

\* C28: shard round trip.  Of a dirty shard that is evicted, the bytes Write
\* gives are R*H long and shardFromBytes of them is a shard with the same R
\* hashes that is not dirty; when its HSET succeeded the field of the store
\* gives back the hash of every slot.  A shard fetched from the store is not
\* dirty, and Write of it gives the bytes of the field.
C28_ShardRoundTrip ==
    /\ \A i \in 1..Len(evictLog) :
        LET e == evictLog[i] IN
        (e.live /\ e.shard.dirty)
        => /\ ShardBytesOk(ShardWrite(e.shard))
           /\ shardFromBytes(ShardWrite(e.shard)).hashes = e.shard.hashes
           /\ ~shardFromBytes(ShardWrite(e.shard)).dirty
           /\ (e.sent = <<"HSET">> /\ e.err = "ok")
              => /\ e.now.present
                 /\ ShardBytesOk(e.now.bytes)
                 /\ \A k \in 0..(R - 1) :
                      ShardGet(shardFromBytes(e.now.bytes), k) = ShardGet(e.shard, k)
    /\ \A t \in Threads :
        (pc[t] = "add" /\ fetched[t])
        => /\ ~heap[ref[t]].dirty
           /\ ShardWrite(heap[ref[t]]) = store[ShardIndexOf(op[t].block)].bytes

\* A Get of block 1 has fetched its shard, which an eviction or a Flush had
\* written with a hash in slot 1 and the nil hash in slot 0, and is about to
\* read the hash from the shard, which is not dirty.
C28_Witness ==
    \E t \in Threads :
        /\ pc[t] = "read"
        /\ fetched[t]
        /\ op[t].block = 1
        /\ ref[t] # NilRef
        /\ ~heap[ref[t]].dirty
        /\ ShardGet(heap[ref[t]], 1) = SomeHash
        /\ ShardGet(heap[ref[t]], 0) = NilHash

\* The ids of the replies of all servers, each once, in ascending order.
RECURSIVE Ascending(_)
Ascending(S) ==
    IF S = {} THEN <<>>
    ELSE LET m == CHOOSE m \in S : \A x \in S : m <= x
         IN  <<m>> \o Ascending(S \ {m})

ReportedIds == UNION {{servers[g].reply.ids[k] : k \in 1..Len(servers[g].reply.ids)} : g \in Servers}

\* C29: ListVdisks never panics; when no server fails it returns, without
\* error, the ids all servers report, sorted and each once; when it has
\* returned an error it has returned no ids, and it returns an error only if
\* a server failed.
C29_ListIsUnion ==
    /\ ~listed.panic
    /\ listed.returned =>
        IF \A g \in Servers : ~servers[g].err
        THEN ~listed.err /\ listed.ids = Ascending(ReportedIds)
        ELSE listed.err => listed.ids = <<>>

\* GenerateFromStorage has returned after flusher.Flush with every pipeline
\* goroutine finished and one AddTransaction per index, numbered 0..n-1.
GeneratedAll ==
    /\ generated.flushed
    /\ WaitGroupDone
    /\ Len(transactions) = Len(indices)
    /\ \A i \in 1..Len(transactions) : transactions[i].seq = i - 1
    /\ \A i \in 1..Len(indices) :
          Cardinality({j \in 1..Len(transactions) :
                          transactions[j].idx = indices[i]}) = 1

\* C30: when no GetBlock and no AddTransaction fails, GenerateFromStorage
\* returns in the end, whatever list of indices ListBlockIndices gave it, the
\* empty list included; and when it has returned, the producer, the fetch
\* workers and the feeder have finished, flusher.Flush has been called, and
\* AddTransaction has been called once per index with the sequence numbers
\* 0..n-1.
C30_Terminates ==
    /\ (faults = "none") => <>generated.returned
    /\ [](faults = "none" /\ generated.returned => GeneratedAll)

\* A GetBlock or an AddTransaction has failed and its error is about to be
\* sent into errCh.
CallFailed == feedPc = "err" \/ \E w \in Workers : workPc[w] = "err"

\* Every goroutine GenerateFromStorage started has returned.
GoroutinesDone == WaitGroupDone /\ waitPc = "done"

\* C31: once a GetBlock or an AddTransaction has failed, GenerateFromStorage
\* returns an error in the end and has not called flusher.Flush; and once it
\* has returned an error, every goroutine it started (producer, fetch
\* workers, feeder and the goroutine waiting for them) returns in the end,
\* none staying blocked on a channel.
C31_ErrorReturnCleansUp ==
    /\ CallFailed ~> (generated.returned /\ generated.err /\ ~generated.flushed)
    /\ (generated.returned /\ ~generated.flushed) ~> GoroutinesDone

\* The server of connB received WATCH, MULTI, DEL, one HSET or more, EXEC, in
\* that order and nothing else.
OneTransaction ==
    /\ Len(delivered) >= 4
    /\ delivered[1].cmd = "WATCH"
    /\ delivered[2].cmd = "MULTI"
    /\ delivered[3].cmd = "DEL"
    /\ delivered[Len(delivered)].cmd = "EXEC"
    /\ \A i \in 4..(Len(delivered) - 1) : delivered[i].cmd = "HSET"

\* The volume v, with the field of the other client when that client wrote
\* after the transaction.
WithLateWrite(v) == IF otherAt = "late" THEN HSet(v, OtherField, "s2") ELSE v

\* The errors of copyDifferentConnections before the transaction has run: no
\* HGETALL reply, an empty source, a field that is no integer, a failed send,
\* a nil reply of EXEC.
ErrorsBeforeExec == {"io", "empty", "parse", "send", "busy"}

\* The field name the copy writes for the source field f.
IndexField(f) == FormatInt(ParseInt(f).value)

\* The volumes a copy of src can be: exactly one field per integer value of
\* the source's field names, holding the value of a source field of that
\* integer value (when two names of the source parse to the same integer, both
\* HSETs go to the same field and either value can be the one that stays).
CopiesOf(src) ==
    {v \in [{IndexField(f) : f \in DOMAIN src} -> FieldValues] :
        \A k \in DOMAIN v : \E f \in DOMAIN src : IndexField(f) = k /\ v[k] = src[f]}

\* No two field names of src parse to the same integer.
DistinctIndices(src) ==
    \A f, g \in DOMAIN src : IndexField(f) = IndexField(g) => f = g

\* C32 as stated: when copyDifferentConnections has returned, both
\* connections are closed; what the target server received is one WATCH,
\* MULTI, DEL, HSET..., EXEC; when it returned nil the target volume was not
\* modified while watched and holds exactly the fields of the source volume;
\* when it returned an error the target volume is as it is without the copy.
C32_AtomicReplace ==
    copied.returned =>
        /\ ~openA /\ ~openB
        /\ delivered # <<>> => OneTransaction
        /\ copied.err = "ok" =>
              otherAt # "watched" /\ dstVolume = WithLateWrite(srcVolume)
        /\ copied.err # "ok" => dstVolume = untouched

\* C32, amended: when copyDifferentConnections has returned, both connections
\* are closed and what the target server received is one WATCH, MULTI, DEL,
\* HSET..., EXEC. When it returned nil the target volume was not modified
\* while watched and holds exactly one field for every integer a source field
\* name parses to, named by the decimal form of that integer and holding the
\* value of a source field whose name parses to that integer; so when no two
\* source names parse to the same integer, every source field's value is
\* under the decimal form of its name, and when every source name is already
\* that decimal form, the target holds exactly the source's fields. When it
\* returned an error before EXEC has run (no source, empty source, a name that
\* is no integer, a failed send, a nil reply of EXEC) the target volume is as
\* it is without the copy. When it returned the error of reading the reply of
\* EXEC, the target volume is either as it is without the copy or replaced as
\* described for the nil return.
C32_AtomicReplaceByIndex ==
    copied.returned =>
        /\ ~openA /\ ~openB
        /\ delivered # <<>> => OneTransaction
        /\ copied.err = "ok" =>
              /\ otherAt # "watched"
              /\ \E v \in CopiesOf(srcVolume) : dstVolume = WithLateWrite(v)
              /\ DistinctIndices(srcVolume) =>
                    \A f \in DOMAIN srcVolume : dstVolume[IndexField(f)] = srcVolume[f]
              /\ (\A f \in DOMAIN srcVolume : IndexField(f) = f) =>
                    dstVolume = WithLateWrite(srcVolume)
        /\ copied.err \in ErrorsBeforeExec => dstVolume = untouched
        /\ copied.err = "lost" =>
              \/ dstVolume = untouched
              \/ \E v \in CopiesOf(srcVolume) : dstVolume = WithLateWrite(v)

\* A copy has returned nil and has replaced an older target volume by the
\* two fields of the source.
C32_Witness ==
    /\ copied.returned
    /\ copied.err = "ok"
    /\ untouched # EmptyVolume
    /\ Cardinality(DOMAIN srcVolume) = 2
    /\ dstVolume = srcVolume
    /\ dstVolume # untouched

\* The values a slice holds.
Elements(l) == {l[i] : i \in 1..Len(l)}

\* C33: called with a slice sorted in non-decreasing order, dedupInt64s and
\* dedupStrings return a strictly increasing slice that holds exactly the
\* values of the input; a slice of length 0 or 1 is returned as it is.
C33_DedupSorted ==
    dedupPc = "done" =>
        /\ \A i \in 1..(Len(deduped) - 1) : Less(elems, deduped[i], deduped[i + 1])
        /\ Elements(deduped) = Elements(input)
        /\ Len(input) <= 1 => deduped = input

\* dedupStrings has returned three strings for a slice of four.
C33_Witness ==
    /\ dedupPc = "done"
    /\ elems = "string"
    /\ Len(input) = 4
    /\ Len(deduped) = 3

====
